---- MODULE Spec2Model ----
(***************************************************************************)
(* The validator of the subnet: validation_loop, validate_step with its    *)
(* per-miner challenge tasks, and set_weights                               *)
(* (src/src/subnet/validator/validator.py), together with the shutdown      *)
(* handler that sets the termination flag (src/src/subnet/cli.py).          *)
(*                                                                         *)
(* Python dicts keep insertion order; a dict is modelled as a sequence of   *)
(* <<key, value>> pairs with distinct keys.  A score is a Python float: an   *)
(* IEEE-754 binary64 number, with every operation rounded to nearest, ties  *)
(* to even, as CPython computes it.                                         *)
(***************************************************************************)
EXTENDS Integers, Sequences, FiniteSets, TLC

\* ------------------------------------------------------------------ bounds
NumMiners == 2          \* modules the chain client reports to validate_step
SWMiners == 3           \* UIDs of the score maps given to set_weights directly
MaxPrior == 1           \* length of a weight file left by an earlier run
MaxInterval == 2        \* settings.ITERATION_INTERVAL and elapsed time, in ticks

UIDs == 1..NumMiners

Min(a, b) == IF a < b THEN a ELSE b

\* ----------------------------------------------------- naturals of any size
\* little-endian sequences of limbs below LimbBase, without leading zero limbs
LimbBits == 15
LimbBase == 32768

RECURSIVE Pow2(_)
Pow2(n) == IF n = 0 THEN 1 ELSE 2 * Pow2(n - 1)

Rest(a) == IF a = <<>> THEN <<>> ELSE Tail(a)

Low(a) == IF a = <<>> THEN 0 ELSE a[1]

RECURSIVE Trim(_)
Trim(a) ==
    IF a # <<>> /\ a[Len(a)] = 0 THEN Trim(SubSeq(a, 1, Len(a) - 1)) ELSE a

RECURSIVE BigOfNat(_)
BigOfNat(n) == IF n = 0 THEN <<>> ELSE <<n % LimbBase>> \o BigOfNat(n \div LimbBase)

RECURSIVE NatOfBig(_)
NatOfBig(a) == IF a = <<>> THEN 0 ELSE a[1] + LimbBase * NatOfBig(Tail(a))

RECURSIVE BAddC(_, _, _)
BAddC(a, b, c) ==
    IF a = <<>> /\ b = <<>> THEN (IF c = 0 THEN <<>> ELSE <<c>>)
    ELSE LET x == Low(a) + Low(b) + c
         IN  <<x % LimbBase>> \o BAddC(Rest(a), Rest(b), x \div LimbBase)

BAdd(a, b) == BAddC(a, b, 0)

\* a - b - c for a >= b + c
RECURSIVE BSubC(_, _, _)
BSubC(a, b, c) ==
    IF a = <<>> THEN <<>>
    ELSE LET x == a[1] - Low(b) - c
         IN  IF x < 0 THEN <<x + LimbBase>> \o BSubC(Tail(a), Rest(b), 1)
             ELSE <<x>> \o BSubC(Tail(a), Rest(b), 0)

BSub(a, b) == Trim(BSubC(a, b, 0))

\* -1, 0 or 1 as a < b, a = b or a > b
RECURSIVE BCmpFrom(_, _, _)
BCmpFrom(a, b, i) ==
    IF i = 0 THEN 0
    ELSE IF a[i] < b[i] THEN -1
    ELSE IF a[i] > b[i] THEN 1
    ELSE BCmpFrom(a, b, i - 1)

BCmp(a, b) ==
    IF Len(a) < Len(b) THEN -1
    ELSE IF Len(a) > Len(b) THEN 1
    ELSE BCmpFrom(a, b, Len(a))

\* a * k + c for a limb k
RECURSIVE BMulSmallC(_, _, _)
BMulSmallC(a, k, c) ==
    IF a = <<>> THEN (IF c = 0 THEN <<>> ELSE <<c>>)
    ELSE LET x == a[1] * k + c
         IN  <<x % LimbBase>> \o BMulSmallC(Tail(a), k, x \div LimbBase)

BMulSmall(a, k) == IF k = 0 THEN <<>> ELSE BMulSmallC(a, k, 0)

RECURSIVE BMul(_, _)
BMul(a, b) ==
    IF a = <<>> \/ b = <<>> THEN <<>>
    ELSE BAdd(BMulSmall(a, b[1]),
              LET hi == BMul(a, Tail(b)) IN IF hi = <<>> THEN <<>> ELSE <<0>> \o hi)

RECURSIVE BitLenSmall(_)
BitLenSmall(n) == IF n = 0 THEN 0 ELSE 1 + BitLenSmall(n \div 2)

BitLen(a) == IF a = <<>> THEN 0 ELSE LimbBits * (Len(a) - 1) + BitLenSmall(a[Len(a)])

Zeros(n) == [i \in 1..n |-> 0]

\* a * 2^n
BShl(a, n) ==
    IF a = <<>> THEN <<>>
    ELSE Zeros(n \div LimbBits) \o BMulSmall(a, Pow2(n % LimbBits))

\* a divided by the limb k, from the top limb down: quotient limbs
RECURSIVE BDivSmallFrom(_, _, _, _)
BDivSmallFrom(a, k, i, r) ==
    IF i = 0 THEN <<>>
    ELSE LET x == r * LimbBase + a[i]
         IN  Append(BDivSmallFrom(a, k, i - 1, x % k), x \div k)

\* floor(a / 2^n)
BShr(a, n) ==
    IF n \div LimbBits >= Len(a) THEN <<>>
    ELSE LET top == SubSeq(a, (n \div LimbBits) + 1, Len(a))
         IN  Trim(BDivSmallFrom(top, Pow2(n % LimbBits), Len(top), 0))

\* a mod 2^n
BLowBits(a, n) ==
    IF n \div LimbBits >= Len(a) THEN a
    ELSE Trim(Append(SubSeq(a, 1, n \div LimbBits),
                     a[(n \div LimbBits) + 1] % Pow2(n % LimbBits)))

\* the largest digit d <= guess with b * d <= r
RECURSIVE BDigitBelow(_, _, _)
BDigitBelow(r, b, guess) ==
    IF BCmp(BMulSmall(b, guess), r) > 0 THEN BDigitBelow(r, b, guess - 1) ELSE guess

\* one step of long division by b, whose top limb is at least LimbBase / 2: the
\* limb x is brought down to the remainder of qr = <<quotient, remainder>>
BDivLimb(x, b, qr) ==
    LET r == Trim(<<x>> \o qr[2])
        n == Len(b)
        top == (IF Len(r) > n THEN r[n + 1] * LimbBase ELSE 0)
                   + (IF Len(r) >= n THEN r[n] ELSE 0)
        guess == IF top \div b[n] < LimbBase THEN top \div b[n] ELSE LimbBase - 1
        d == BDigitBelow(r, b, guess)
    IN  <<Trim(<<d>> \o qr[1]), BSub(r, BMulSmall(b, d))>>

\* long division of the limbs a[i..] by b, top limb first; a zero limb brought
\* down to a zero remainder gives a zero digit
RECURSIVE BDivLimbs(_, _, _)
BDivLimbs(a, i, b) ==
    IF i > Len(a) THEN <<<<>>, <<>>>>
    ELSE LET qr == BDivLimbs(a, i + 1, b)
         IN  IF qr[2] = <<>> /\ a[i] = 0
             THEN <<IF qr[1] = <<>> THEN <<>> ELSE <<0>> \o qr[1], <<>>>>
             ELSE BDivLimb(a[i], b, qr)

\* <<floor(a / b), a mod b>> for b # 0
BDivMod(a, b) ==
    LET s == LimbBits - BitLenSmall(b[Len(b)])
        qr == BDivLimbs(BShl(a, s), 1, BShl(b, s))
    IN  <<qr[1], BShr(qr[2], s)>>

\* ------------------------------------------------------------ Python floats
\* an IEEE-754 binary64 number: m * 2^e with 2^52 <= m < 2^53, negated when neg,
\* or zero; -0.0 is not told from 0.0, to which it compares equal
Precision == 53

FloatZero == [m |-> <<>>, e |-> 0, neg |-> FALSE]

\* F(v), with v computed once
Bind(v, F(_)) == CHOOSE r \in { F(x) : x \in {v} } : TRUE

\* q rounded up when the bits cut off compare as c to one half: -1, 0 or 1
RoundedUp(q, c) ==
    IF c > 0 \/ (c = 0 /\ q[1] % 2 = 1) THEN BAdd(q, <<1>>) ELSE q

\* round to nearest, ties to even, of the exact value m * 2^e
RoundToFloat(m, e) ==
    IF m = <<>> THEN FloatZero
    ELSE LET n == BitLen(m)
             k == n - Precision
         IN  IF n <= Precision
             THEN [m |-> BShl(m, Precision - n), e |-> e - (Precision - n),
                   neg |-> FALSE]
             ELSE Bind(RoundedUp(BShr(m, k),
                                 BCmp(BLowBits(m, k), BShl(<<1>>, k - 1))),
                       LAMBDA q1 :
                           IF BitLen(q1) > Precision
                           THEN [m |-> BShr(q1, 1), e |-> e + k + 1, neg |-> FALSE]
                           ELSE [m |-> q1, e |-> e + k, neg |-> FALSE])

\* float(n) of a non-negative int
FloatOfInt(n) == RoundToFloat(BigOfNat(n), 0)

\* x with the sign neg
WithSign(x, neg) == [m |-> x.m, e |-> x.e, neg |-> neg /\ x.m # <<>>]

\* -x
FNeg(x) == WithSign(x, ~x.neg)

\* x + y
FAdd(x, y) ==
    IF x.m = <<>> THEN y
    ELSE IF y.m = <<>> THEN x
    ELSE LET e == IF x.e < y.e THEN x.e ELSE y.e
         IN  Bind(BShl(x.m, x.e - e), LAMBDA a :
             Bind(BShl(y.m, y.e - e), LAMBDA b :
                 IF x.neg = y.neg THEN WithSign(RoundToFloat(BAdd(a, b), e), x.neg)
                 ELSE IF BCmp(a, b) >= 0
                 THEN WithSign(RoundToFloat(BSub(a, b), e), x.neg)
                 ELSE WithSign(RoundToFloat(BSub(b, a), e), y.neg)))

\* x - y
FSub(x, y) == FAdd(x, FNeg(y))

\* the mantissa of a power of two
UnitMantissa == BShl(<<1>>, Precision - 1)

\* x * y; a product with a power of two is exact
FMul(x, y) ==
    IF x.m = <<>> \/ y.m = <<>> THEN FloatZero
    ELSE IF y.m = UnitMantissa
    THEN [m |-> x.m, e |-> x.e + y.e + (Precision - 1), neg |-> x.neg # y.neg]
    ELSE IF x.m = UnitMantissa
    THEN [m |-> y.m, e |-> x.e + y.e + (Precision - 1), neg |-> x.neg # y.neg]
    ELSE WithSign(RoundToFloat(BMul(x.m, y.m), x.e + y.e), x.neg # y.neg)

\* x / y for y # 0: the quotient to 56 bits and more, with a sticky bit; a
\* quotient of equal mantissas is a power of two and exact
FDiv(x, y) ==
    IF x.m = <<>> \/ y.m = <<>> THEN FloatZero
    ELSE IF x.m = y.m
    THEN [m |-> UnitMantissa, e |-> x.e - y.e - (Precision - 1),
          neg |-> x.neg # y.neg]
    ELSE Bind(BDivMod(BShl(x.m, Precision + 2), y.m), LAMBDA qr :
             WithSign(RoundToFloat(IF qr[2] = <<>> THEN BMulSmall(qr[1], 2)
                                   ELSE BAdd(BMulSmall(qr[1], 2), <<1>>),
                                   x.e - y.e - (Precision + 3)),
                      x.neg # y.neg))

\* |x| < |y|
MagnitudeLess(x, y) ==
    IF y.m = <<>> THEN FALSE
    ELSE IF x.m = <<>> THEN TRUE
    ELSE x.e < y.e \/ (x.e = y.e /\ BCmp(x.m, y.m) < 0)

\* x < y
FLess(x, y) ==
    IF x.neg /\ ~y.neg THEN TRUE
    ELSE IF ~x.neg /\ y.neg THEN FALSE
    ELSE IF x.neg THEN MagnitudeLess(y, x)
    ELSE MagnitudeLess(x, y)

FLeq(x, y) == ~FLess(y, x)

FMin(x, y) == IF FLess(y, x) THEN y ELSE x

\* int(x): towards zero
IntOfFloat(x) ==
    LET n == IF x.m = <<>> THEN 0
             ELSE IF x.e >= 0 THEN NatOfBig(BShl(x.m, x.e))
             ELSE NatOfBig(BShr(x.m, -x.e))
    IN  IF x.neg THEN -n ELSE n

\* floor(x * n / y) in exact arithmetic, for y # 0
ExactFloorShare(x, n, y) ==
    IF x.m = <<>> \/ y.m = <<>> THEN 0
    ELSE LET e == IF x.e < y.e THEN x.e ELSE y.e
             num == BMul(BShl(x.m, x.e - e), BigOfNat(n))
         IN  IF num = <<>> THEN 0
             ELSE NatOfBig(BDivMod(num, BShl(y.m, y.e - e))[1])

\* the float literal n/d in decimal notation: the binary64 number nearest to n/d
FloatLiteral(n, d) == FDiv(FloatOfInt(n), FloatOfInt(d))

\* ------------------------------------------------------- program constants
WeightScale == 1000                     \* int(score * 1000 / score_sum)
FollowerThreshold == 1000               \* follower_count > 1000
ScoreOne == FloatOfInt(1)               \* 1.0
Score1Failure == FloatLiteral(7, 10)    \* 0.7
Score2Failures == FloatLiteral(3, 10)   \* 0.3
FollowerBonus == FloatLiteral(1, 10)    \* 0.1

\* scores _score_miner returns with a multiplier of 1 or more: 0, 0.3, 0.7,
\* 0.7 + 0.1 and 1.0
ScoreLevels ==
    {FloatZero, Score2Failures, Score1Failure, FAdd(Score1Failure, FollowerBonus),
     ScoreOne}

VARIABLES
    pc,          \* position of validation_loop / validate_step / set_weights
    terminate,   \* self.terminate_event
    flagAt,      \* where the loop was when the flag was set
    startedAfterFlag, \* validate_step calls started with the flag already set
    error,       \* exception that left validation_loop ("none" while running)
    registered,  \* the validator's key is among the modules of this iteration
    sleep_time,  \* argument of terminate_event.wait, 0 when not sleeping
    worklist,    \* miners_module_info: UIDs in insertion order
    task,        \* position of each _challenge_miner task, by worklist position
    response,    \* result of each task as asyncio.gather returns it
    idx,         \* position of the scoring loop in the worklist
    score_dict,  \* score_dict of validate_step, the argument of set_weights
    regLog,      \* Miner Registry writes of the current iteration, in order
    maxAllowed,  \* settings.MAX_ALLOWED_WEIGHTS, 0 until set_weights is entered
    cut,         \* score_dict of set_weights after cut_to_max_allowed_weights
    stored,      \* content of the weights file (WeightsStorage)
    readMap,     \* what weights_storage.read() returned in this call
    ballot,      \* uids / weights lists built by set_weights
    swLog,       \* store and vote calls of the current set_weights call
    swError,     \* set_weights raised in this call
    lastVote,    \* the last vote submitted to the chain client by this validator
    tweet_cache,      \* rows of the table tweet_cache
    user_cache,       \* rows of the table user_cache
    written,          \* per cache and id, the fields of the store calls made so far
    miner_discovery,  \* the table miner_discoveries: unique indexes and rows
    dbCall            \* the last call made on a manager, with what it returned

flagVars == <<terminate, flagAt, startedAfterFlag>>

loopVars == <<error, registered, sleep_time>>

stepVars == <<worklist, task, response, idx, score_dict, regLog>>

dbVars == <<tweet_cache, user_cache, written, miner_discovery, dbCall>>

swVars == <<maxAllowed, cut, stored, readMap, ballot, swLog, swError, lastVote>>

vars == <<pc, flagVars, loopVars, stepVars, swVars, dbVars>>

\* ------------------------------------------------------- insertion-ordered dicts
Keys(d) == { d[i][1] : i \in DOMAIN d }

Index(d, k) == CHOOSE i \in DOMAIN d : d[i][1] = k

Get(d, k) == d[Index(d, k)][2]

\* d[k] = v: an existing key keeps its position, a new key is appended
Put(d, k, v) ==
    IF k \in Keys(d) THEN [d EXCEPT ![Index(d, k)] = <<k, v>>]
    ELSE Append(d, <<k, v>>)

\* sum(d.values()): from 0, left to right
RECURSIVE SumValues(_)
SumValues(d) ==
    IF d = <<>> THEN FloatZero
    ELSE FAdd(SumValues(SubSeq(d, 1, Len(d) - 1)), d[Len(d)][2])

KeyList(d) == [i \in DOMAIN d |-> d[i][1]]

ValueList(d) == [i \in DOMAIN d |-> d[i][2]]

IsDict(d) == \A i, j \in DOMAIN d : d[i][1] = d[j][1] => i = j

RemoveAt(s, i) == SubSeq(s, 1, i - 1) \o SubSeq(s, i + 1, Len(s))

\* sorted(items, key=score, reverse=True): stable, highest score first
RECURSIVE SortedByScoreDesc(_)
SortedByScoreDesc(d) ==
    IF d = <<>> THEN <<>>
    ELSE LET i == CHOOSE i \in DOMAIN d :
                     /\ \A j \in DOMAIN d : FLeq(d[j][2], d[i][2])
                     /\ \A j \in 1..(i - 1) : FLess(d[j][2], d[i][2])
         IN  <<d[i]>> \o SortedByScoreDesc(RemoveAt(d, i))

\* cut_to_max_allowed_weights: keep the max_allowed highest scores
cut_to_max_allowed_weights(sd, max_allowed) ==
    IF Len(sd) > max_allowed
    THEN SubSeq(SortedByScoreDesc(sd), 1, max_allowed)
    ELSE sd

\* ------------------------------------------------------------- set_weights
\* as Weight, with one more than the truncated quotient
Weight_RoundUp(score, score_sum) ==
    IF score_sum = FloatZero THEN 0
    ELSE IntOfFloat(FDiv(FMul(score, FloatOfInt(WeightScale)), score_sum)) + 1

\* int(score * 1000 / score_sum), or 0 when score_sum == 0
Weight(score, score_sum) ==
    IF score_sum = FloatZero THEN 0
    ELSE IntOfFloat(FDiv(FMul(score, FloatOfInt(WeightScale)), score_sum))

\* the loop `for uid, score in score_dict.items()` over the map read from storage
RECURSIVE AssignWeights(_, _, _)
AssignWeights(weighted_scores, sd, score_sum) ==
    IF sd = <<>> THEN weighted_scores
    ELSE AssignWeights(Put(weighted_scores, sd[1][1], Weight(sd[1][2], score_sum)),
                       Tail(sd), score_sum)

\* as PruneToScored, keeping the UIDs of earlier rounds
PruneToScored_KeepStale(weighted_scores, sd) == weighted_scores

\* {k: v for k, v in weighted_scores.items() if k in score_dict}
PruneToScored(weighted_scores, sd) ==
    SelectSeq(weighted_scores, LAMBDA e : e[1] \in Keys(sd))

\* the weight map set_weights stores, from the cut score map and the map read
WeightedScores(sd, prior) ==
    PruneToScored(AssignWeights(prior, sd, SumValues(sd)), sd)

NoBallot == [uids |-> <<>>, weights |-> <<>>]

Reverse(s) == [i \in DOMAIN s |-> s[Len(s) + 1 - i]]

\* as Ballot, with the weights listed in the opposite order
Ballot_WeightsReversed(weighted_scores) ==
    [uids |-> KeyList(weighted_scores),
     weights |-> Reverse(ValueList(weighted_scores))]

\* uids = list(weighted_scores.keys()); weights = list(weighted_scores.values())
Ballot(weighted_scores) ==
    [uids |-> KeyList(weighted_scores), weights |-> ValueList(weighted_scores)]

\* as CutScores, with the call of cut_to_max_allowed_weights left out
CutScores_NoCut == score_dict

\* line 382: score_dict = cut_to_max_allowed_weights(score_dict, MAX_ALLOWED_WEIGHTS)
CutScores == cut_to_max_allowed_weights(score_dict, maxAllowed)

\* self.weights_storage.store(weighted_scores), as the file then reads
StoreEvent(weighted_scores) ==
    [op |-> "store", uids |-> KeyList(weighted_scores),
     weights |-> ValueList(weighted_scores)]

\* client.vote(key=key, uids=uids, weights=weights, netuid=netuid)
VoteEvent(b) == [op |-> "vote", uids |-> b.uids, weights |-> b.weights]

\* self.weights_storage.read(): the map the last store() wrote
WeightsStorageRead == stored

\* as SetWeightsStore, with the map written to the file before it is pruned
SetWeightsStore_StoreUnpruned ==
    /\ pc = "set_weights"
    /\ cut' = CutScores
    /\ readMap' = WeightsStorageRead
    /\ stored' = AssignWeights(WeightsStorageRead, CutScores, SumValues(CutScores))
    /\ ballot' = Ballot(WeightedScores(CutScores, WeightsStorageRead))
    /\ swLog' = Append(swLog, StoreEvent(stored'))
    /\ pc' = "voting"
    /\ UNCHANGED <<dbVars, flagVars, loopVars, stepVars, maxAllowed, swError, lastVote>>

\* lines 382-402: cut, setup, read, compute, prune, store, build the lists
SetWeightsStore ==
    /\ pc = "set_weights"
    /\ cut' = CutScores
    /\ readMap' = WeightsStorageRead
    /\ LET weighted_scores == WeightedScores(CutScores, WeightsStorageRead)
       IN  \/ /\ stored' = weighted_scores
              /\ ballot' = Ballot(weighted_scores)
              /\ swLog' = Append(swLog, StoreEvent(weighted_scores))
              /\ pc' = "voting"
              /\ UNCHANGED swError
           \/ \* setup(), read() or store() raises before the file is rewritten
              /\ swError' = TRUE
              /\ pc' = "returned"
              /\ UNCHANGED <<stored, ballot, swLog>>
    /\ UNCHANGED <<dbVars, flagVars, loopVars, stepVars, maxAllowed, lastVote>>

\* as SetWeightsVote, with the exception of client.vote leaving validate_step
SetWeightsVote_Propagates ==
    /\ pc = "voting"
    /\ IF Len(ballot.uids) > 0
       THEN /\ swLog' = Append(swLog, VoteEvent(ballot))
            /\ lastVote' = ballot
            /\ \/ /\ pc' = "returned"
                  /\ UNCHANGED <<swError, error>>
               \/ /\ swError' = TRUE
                  /\ pc' = "crashed"
                  /\ error' = "set_weights"
       ELSE /\ pc' = "returned"
            /\ UNCHANGED <<swLog, swError, lastVote, error>>
    /\ UNCHANGED <<dbVars, flagVars, registered, sleep_time, stepVars, maxAllowed, cut, stored,
                   readMap, ballot>>

\* lines 404-407: one client.vote call when the map is not empty
SetWeightsVote ==
    /\ pc = "voting"
    /\ IF Len(ballot.uids) > 0
       THEN /\ swLog' = Append(swLog, VoteEvent(ballot))
            /\ lastVote' = ballot
            /\ \/ UNCHANGED swError
               \/ \* client.vote raises
                  swError' = TRUE
       ELSE UNCHANGED <<swLog, swError, lastVote>>
    /\ pc' = "returned"
    /\ UNCHANGED <<dbVars, flagVars, loopVars, stepVars, maxAllowed, cut, stored, readMap, ballot>>

\* ------------------------------------------------------------- field values
\* None, as dict.get returns it for a missing key
NoId == "<None>"

\* None, as a manager returns it when no row matches
NotFound == [type |-> "None"]

IntValue(n) == [type |-> "int", n |-> n]

StrValue(chars) == [type |-> "str", chars |-> chars]

\* a naive UTC datetime of the minute 2024-01-01T00:00
DateTimeValue(sec, us) == [type |-> "datetime", sec |-> sec, us |-> us]

Digits == <<"0", "1", "2", "3", "4", "5", "6", "7", "8", "9">>

RECURSIVE DecimalDigits(_)
DecimalDigits(n) ==
    IF n < 10 THEN <<Digits[n + 1]>>
    ELSE Append(DecimalDigits(n \div 10), Digits[(n % 10) + 1])

\* str(n) of a non-negative int
Str(v) == StrValue(DecimalDigits(v.n))

RECURSIVE ZeroPadded(_, _)
ZeroPadded(n, width) ==
    IF width = 0 THEN <<>>
    ELSE Append(ZeroPadded(n \div 10, width - 1), Digits[(n % 10) + 1])

\* datetime.isoformat(): the microseconds are written only when they are not 0
IsoFormat(dt) ==
    StrValue(<<"2024-01-01T00:00:">> \o ZeroPadded(dt.sec, 2)
             \o (IF dt.us = 0 THEN <<>> ELSE <<".">> \o ZeroPadded(dt.us, 6)))

DigitValue(c) == CHOOSE d \in 0..9 : Digits[d + 1] = c

RECURSIVE Number(_)
Number(chars) ==
    IF chars = <<>> THEN 0
    ELSE 10 * Number(SubSeq(chars, 1, Len(chars) - 1)) + DigitValue(chars[Len(chars)])

\* datetime.fromisoformat(text) accepts the text
IsIsoText(text) ==
    /\ text.type = "str"
    /\ Len(text.chars) \in {3, 10}
    /\ text.chars[1] = "2024-01-01T00:00:"
    /\ \A i \in 2..Len(text.chars) : i # 4 => text.chars[i] \in { Digits[k] : k \in DOMAIN Digits }
    /\ Len(text.chars) = 10 => text.chars[4] = "."

\* datetime.fromisoformat(text)
FromIsoFormat(text) ==
    DateTimeValue(Number(SubSeq(text.chars, 2, 3)),
                  IF Len(text.chars) > 3 THEN Number(SubSeq(text.chars, 5, 10)) ELSE 0)

\* ----------------------------------------------------------------- caches
TweetIds == {"t1", "t2"}

UserIds == {"u1"}

DateTimes == {DateTimeValue(5, 0), DateTimeValue(40, 120000)}

FollowerCounts == {500, 1500}

\* tweet_cache.first(): the first row of the select
FirstRow(table, match(_)) ==
    LET i == CHOOSE i \in DOMAIN table :
                 /\ match(table[i])
                 /\ \A j \in 1..(i - 1) : ~match(table[j])
    IN  table[i]

\* as store_tweet_cache, with a plain INSERT
store_tweet_cache_Insert(table, tweet_id, tweet_date) ==
    Append(table, [tweet_id |-> tweet_id, tweet_date |-> tweet_date])

\* INSERT ... ON CONFLICT (tweet_id) DO UPDATE SET tweet_date
store_tweet_cache(table, tweet_id, tweet_date) ==
    IF \E i \in DOMAIN table : table[i].tweet_id = tweet_id
    THEN [i \in DOMAIN table |->
             IF table[i].tweet_id = tweet_id
             THEN [table[i] EXCEPT !.tweet_date = tweet_date]
             ELSE table[i]]
    ELSE Append(table, [tweet_id |-> tweet_id, tweet_date |-> tweet_date])

\* select where tweet_id = :id, first(); the date is returned as isoformat() text
get_tweet_cache(table, tweet_id) ==
    IF \E i \in DOMAIN table : table[i].tweet_id = tweet_id
    THEN LET record == FirstRow(table, LAMBDA r : r.tweet_id = tweet_id)
         IN  [tweet_id |-> record.tweet_id, tweet_date |-> IsoFormat(record.tweet_date)]
    ELSE NotFound

\* as store_user_cache, with a plain INSERT
store_user_cache_Insert(table, user_id, follower_count, verified) ==
    Append(table, [user_id |-> user_id, follower_count |-> follower_count,
                   verified |-> verified])

\* INSERT ... ON CONFLICT (user_id) DO UPDATE SET follower_count, verified
store_user_cache(table, user_id, follower_count, verified) ==
    IF \E i \in DOMAIN table : table[i].user_id = user_id
    THEN [i \in DOMAIN table |->
             IF table[i].user_id = user_id
             THEN [table[i] EXCEPT !.follower_count = follower_count,
                                   !.verified = verified]
             ELSE table[i]]
    ELSE Append(table, [user_id |-> user_id, follower_count |-> follower_count,
                        verified |-> verified])

\* select where user_id = :id, first(); the count is returned as str(count)
get_user_cache(table, user_id) ==
    IF \E i \in DOMAIN table : table[i].user_id = user_id
    THEN LET record == FirstRow(table, LAMBDA r : r.user_id = user_id)
         IN  [user_id |-> record.user_id,
              follower_count |-> Str(record.follower_count),
              verified |-> record.verified]
    ELSE NotFound

\* --------------------------------------------------------- miner registry
MinerKeys == {"k1", "k2"}

Tokens == {"PEPE", "DOGE"}

\* the unique indexes of miner_discoveries as migration 001 creates them
Migration001 == {{"miner_key"}}

\* the unique index that "unique per (miner_key, token)" asks for
KeyTokenIndex == {{"miner_key", "token"}}

\* index_elements of the ON CONFLICT clause of store_miner_metadata
ConflictTarget == {"miner_key", "token"}

\* as store_miner_metadata, with the existing record replaced by a new one
store_miner_metadata_Replace(table, uid, miner_key, token, now) ==
    IF ConflictTarget \notin table.unique
    THEN [raised |-> TRUE, table |-> table]
    ELSE [raised |-> FALSE,
          table |-> [table EXCEPT !.rows =
              Append(SelectSeq(table.rows,
                               LAMBDA r : r.miner_key # miner_key \/ r.token # token),
                     [uid |-> uid, miner_key |-> miner_key, token |-> token,
                      timestamp |-> now, rank |-> 0, failed_challenges |-> 0,
                      total_challenges |-> 0, is_trusted |-> 0])]]

\* INSERT ... ON CONFLICT (miner_key, token) DO UPDATE SET uid, ..., timestamp;
\* PostgreSQL rejects the statement when no unique index has exactly these columns
store_miner_metadata(table, uid, miner_key, token, now) ==
    IF ConflictTarget \notin table.unique
    THEN [raised |-> TRUE, table |-> table]
    ELSE IF \E i \in DOMAIN table.rows :
                table.rows[i].miner_key = miner_key /\ table.rows[i].token = token
    THEN [raised |-> FALSE,
          table |-> [table EXCEPT !.rows =
              [i \in DOMAIN table.rows |->
                  IF table.rows[i].miner_key = miner_key /\ table.rows[i].token = token
                  THEN [table.rows[i] EXCEPT !.uid = uid, !.timestamp = now]
                  ELSE table.rows[i]]]]
    ELSE [raised |-> FALSE,
          table |-> [table EXCEPT !.rows =
              Append(table.rows,
                     [uid |-> uid, miner_key |-> miner_key, token |-> token,
                      timestamp |-> now, rank |-> 0, failed_challenges |-> 0,
                      total_challenges |-> 0, is_trusted |-> 0])]]

\* UPDATE miner_discoveries SET rank = :new_rank WHERE miner_key = :miner_key
update_miner_rank(table, miner_key, new_rank) ==
    [table EXCEPT !.rows =
        [i \in DOMAIN table.rows |->
            IF table.rows[i].miner_key = miner_key
            THEN [table.rows[i] EXCEPT !.rank = new_rank]
            ELSE table.rows[i]]]

\* UPDATE ... SET failed_challenges = failed_challenges + :inc,
\* total_challenges = total_challenges + :inc WHERE miner_key = :miner_key
update_miner_challenges(table, miner_key, failed_challenges_inc, total_challenges_inc) ==
    [table EXCEPT !.rows =
        [i \in DOMAIN table.rows |->
            IF table.rows[i].miner_key = miner_key
            THEN [table.rows[i] EXCEPT
                     !.failed_challenges = @ + failed_challenges_inc,
                     !.total_challenges = @ + total_challenges_inc]
            ELSE table.rows[i]]]

\* DELETE FROM miner_discoveries WHERE miner_key = :miner_key
remove_miner_by_key(table, miner_key) ==
    [table EXCEPT !.rows = SelectSeq(table.rows, LAMBDA r : r.miner_key # miner_key)]

\* the store calls made so far on one id: how many, the fields of the last one and
\* of the one before
NoWrites ==
    [tweet |-> [id \in TweetIds |-> [n |-> 0, fields |-> NotFound, prev |-> NotFound]],
     user |-> [id \in UserIds |-> [n |-> 0, fields |-> NotFound, prev |-> NotFound]]]

NoCall == [op |-> "none"]

DbIdle ==
    /\ tweet_cache = <<>> /\ user_cache = <<>> /\ written = NoWrites
    /\ miner_discovery = [unique |-> Migration001, rows |-> <<>>]
    /\ dbCall = NoCall

\* ------------------------------------------------ set_weights on its own
\* sequences of distinct UIDs of length at most n
RECURSIVE UidSeqs(_)
UidSeqs(n) ==
    IF n = 0 THEN {<<>>}
    ELSE LET shorter == UidSeqs(n - 1)
         IN  shorter \cup { Append(s, u) : s \in { t \in shorter : Len(t) = n - 1 },
                                          u \in 1..SWMiners }

DistinctUidSeqs(n) ==
    { s \in UidSeqs(n) : \A i, j \in DOMAIN s : s[i] = s[j] => i = j }

\* score maps a caller can pass: any insertion order, any score in [0,1]
ScoreMaps ==
    UNION { { [i \in DOMAIN s |-> <<s[i], f[i]>>] : f \in [DOMAIN s -> ScoreLevels] }
            : s \in DistinctUidSeqs(SWMiners) }

\* weight files an earlier run can have left: set_weights wrote them, so each is
\* a map of weights that sum to at most 1000
PriorMaps ==
    { [i \in DOMAIN s |-> <<s[i], WeightScale \div Len(s)>>] :
          s \in DistinctUidSeqs(MaxPrior) }

LoopIdle ==
    /\ terminate = FALSE /\ flagAt = "never" /\ startedAfterFlag = 0
    /\ error = "none" /\ registered = TRUE /\ sleep_time = 0
    /\ worklist = <<>> /\ task = <<>> /\ response = <<>> /\ idx = 0
    /\ regLog = <<>>

InitSW ==
    /\ LoopIdle
    /\ DbIdle
    /\ pc = "set_weights"
    /\ score_dict \in ScoreMaps
    /\ maxAllowed \in 1..SWMiners
    /\ stored \in PriorMaps
    /\ lastVote = Ballot(stored)
    /\ cut = <<>> /\ readMap = <<>> /\ ballot = NoBallot /\ swLog = <<>>
    /\ swError = FALSE

NextSW == SetWeightsStore \/ SetWeightsVote

SpecSW == InitSW /\ [][NextSW]_vars

\* ------------------------------------------------------------ _score_miner
\* base_score of _score_miner
BaseScore(failed_challenges) ==
    IF failed_challenges = 3 THEN FloatZero
    ELSE IF failed_challenges = 2 THEN Score2Failures
    ELSE IF failed_challenges = 1 THEN Score1Failure
    ELSE ScoreOne

\* (base_score + follower_bonus) * min(1.0, receipt_miner_multiplier), capped at 1.0;
\* the multiplier is given in halves
_score_miner(resp, multiplier2) ==
    IF ~resp.ok THEN FloatZero
    ELSE LET follower_bonus ==
                 IF resp.follower_count > FollowerThreshold THEN FollowerBonus
                 ELSE FloatZero
             receipt_miner_multiplier == FDiv(FloatOfInt(multiplier2), FloatOfInt(2))
             final_score ==
                 FMul(FAdd(BaseScore(resp.failed_challenges), follower_bonus),
                      FMin(ScoreOne, receipt_miner_multiplier))
         IN  FMin(final_score, ScoreOne)

\* ------------------------------------- adjust_token_weights_with_min_threshold
\* min_threshold_ratio of the call in validate_step
MinThresholdRatio == 5

\* sum(d.values()) of a dict of ints
RECURSIVE SumInts(_)
SumInts(d) == IF d = <<>> THEN 0 ELSE d[1][2] + SumInts(Tail(d))

\* d.get(k, 0)
GetOr0(d, k) == IF k \in Keys(d) THEN Get(d, k) ELSE 0

\* a / b of two ints
TrueDiv(a, b) == FDiv(FloatOfInt(a), FloatOfInt(b))

\* line 261: the base weights as percentages
NormalizedBaseWeights(base_weights) ==
    [i \in DOMAIN base_weights |->
        <<base_weights[i][1],
          FMul(TrueDiv(base_weights[i][2], SumInts(base_weights)), FloatOfInt(100))>>]

\* min_threshold = 100 / min_threshold_ratio
MinThreshold == TrueDiv(100, MinThresholdRatio)

\* lines 271-278: each percentage times the token's share of the prompts, and
\* min_threshold where that is less
Thresholded(normalized_base_weights, organic_prompts) ==
    [i \in DOMAIN normalized_base_weights |->
        Bind(normalized_base_weights[i], LAMBDA entry :
            Bind(FMul(entry[2],
                      TrueDiv(GetOr0(organic_prompts, entry[1]),
                              SumInts(organic_prompts))),
                 LAMBDA adjusted_weight :
                     <<entry[1], IF FLess(adjusted_weight, MinThreshold)
                                 THEN MinThreshold ELSE adjusted_weight>>))]

\* lines 282-292: above a total of 100, the part of each weight above the
\* threshold is scaled so that the total becomes 100
Rescaled(adjusted_weights, total_adjusted_weight) ==
    IF ~FLess(FloatOfInt(100), total_adjusted_weight) THEN adjusted_weights
    ELSE Bind(FMul(MinThreshold, FloatOfInt(Len(adjusted_weights))),
              LAMBDA min_total :
         Bind(FSub(total_adjusted_weight, min_total), LAMBDA weight_above_min :
            IF FLess(FloatZero, weight_above_min)
            THEN Bind(FDiv(FSub(FloatOfInt(100), min_total), weight_above_min),
                      LAMBDA scale_factor :
                     [i \in DOMAIN adjusted_weights |->
                         Bind(adjusted_weights[i], LAMBDA entry :
                             IF FLess(MinThreshold, entry[2])
                             THEN <<entry[1],
                                    FAdd(MinThreshold,
                                         FMul(FSub(entry[2], MinThreshold),
                                              scale_factor))>>
                             ELSE entry)])
            ELSE [i \in DOMAIN adjusted_weights |->
                     <<adjusted_weights[i][1], MinThreshold>>]))

\* lines 259-294: base_weights is what load_base_weights() returns, a dict of
\* positive ints by token; organic_prompts the receipt counts by token
adjust_token_weights_with_min_threshold(base_weights, organic_prompts) ==
    IF SumInts(organic_prompts) = 0 THEN NormalizedBaseWeights(base_weights)
    ELSE Bind(NormalizedBaseWeights(base_weights), LAMBDA normalized_base_weights :
         Bind(Thresholded(normalized_base_weights, organic_prompts),
              LAMBDA adjusted_weights :
                  Rescaled(adjusted_weights, SumValues(adjusted_weights))))

\* lines 351-355: the score times the share of the token in the adjusted weights
weighted_score(score, adjusted_weights, token) ==
    Bind(adjusted_weights, LAMBDA weights :
        FMul(score, FDiv(Get(weights, token), SumValues(weights))))

\* ------------------------------------------------------- _perform_challenges
\* as FailedChallenges, with the date compared also when the tweet was not found
FailedChallenges_DateAlways(tweet_found, date_matches, user_found) ==
    (IF ~tweet_found THEN 1 ELSE 0) + (IF ~date_matches THEN 1 ELSE 0)
  + (IF ~user_found THEN 1 ELSE 0)

\* failed_challenges of one challenge round: the tweet is not found, or it is found
\* and its date differs; the user is not found
FailedChallenges(tweet_found, date_matches, user_found) ==
    (IF ~tweet_found THEN 1 ELSE IF ~date_matches THEN 1 ELSE 0)
  + (IF ~user_found THEN 1 ELSE 0)

\* failed_challenges a challenge round can report
RoundFailures ==
    { FailedChallenges(tweet_found, date_matches, user_found) :
          tweet_found \in BOOLEAN, date_matches \in BOOLEAN, user_found \in BOOLEAN }

\* None, as _challenge_miner returns it
NoResponse ==
    [ok |-> FALSE, by |-> 0, failed_challenges |-> 0, follower_count |-> 0,
     version |-> 0]

\* TwitterChallengeMinerResponse, with the miner that produced it
ChallengeResponse(uid, failed, followers, version) ==
    [ok |-> TRUE, by |-> uid, failed_challenges |-> failed,
     follower_count |-> followers, version |-> version]

\* src.subnet.VERSION, in tenths
VERSION == 10

\* the versions a discovery answer can carry, in tenths: the validator's, another
DiscoveryVersions == {VERSION, 9}

\* where the coroutine of one miner stands, and the version of the Discovery it holds
TaskAt(at, version) == [at |-> at, discovery |-> version]

\* --------------------------------------- _perform_challenges and the caches
\* what the Twitter service returns for a tweet it holds: created_at, in UTC
TweetCreatedAt(tweet_id) ==
    IF tweet_id = "t1" THEN DateTimeValue(5, 0) ELSE DateTimeValue(40, 120000)

\* what the Twitter service returns for a user it holds
TwitterUserDetails(user_id) == [followers_count |-> IntValue(1500), verified |-> TRUE]

\* tweet_date values a miner can send: an isoformat text, another text, None
MinerTweetDates ==
    {IsoFormat(TweetCreatedAt("t1")), StrValue(<<"yesterday">>), NotFound}

CacheRead(op, id, ret) == [op |-> op, id |-> id, hit |-> ret # NotFound]

Lookup(op, id, found) == [op |-> op, id |-> id, found |-> found]

CacheWrite(op, id, fields) == [op |-> op, id |-> id, fields |-> fields]

\* as VerifyTweet, with the Twitter lookup made before the cache is read
VerifyTweet_LookupFirst(cache, tweet_id, tweets) ==
    LET tweet_data == get_tweet_cache(cache, tweet_id)
        lookup == <<Lookup("get_tweet_details", tweet_id, tweet_id \in tweets)>>
        read == <<CacheRead("get_tweet_cache", tweet_id, tweet_data)>>
    IN  IF tweet_id \in tweets
        THEN LET tweet_date == TweetCreatedAt(tweet_id)
             IN  [cache |-> store_tweet_cache(cache, tweet_id, tweet_date),
                  log |-> lookup \o read \o
                          <<CacheWrite("store_tweet_cache", tweet_id,
                                       [tweet_date |-> tweet_date])>>,
                  expected |-> IsoFormat(tweet_date)]
        ELSE [cache |-> cache, log |-> lookup \o read, expected |-> NotFound]

\* lines 148-171: the tweet from the cache, else from Twitter and into the cache
VerifyTweet(cache, tweet_id, tweets) ==
    LET tweet_data == get_tweet_cache(cache, tweet_id)
        read == <<CacheRead("get_tweet_cache", tweet_id, tweet_data)>>
    IN  IF tweet_data # NotFound
        THEN [cache |-> cache, log |-> read, expected |-> tweet_data.tweet_date]
        ELSE IF tweet_id = NoId
        THEN [cache |-> cache, log |-> read, expected |-> NotFound]
        ELSE IF tweet_id \in tweets
        THEN LET tweet_date == TweetCreatedAt(tweet_id)
             IN  [cache |-> store_tweet_cache(cache, tweet_id, tweet_date),
                  log |-> read \o
                          <<Lookup("get_tweet_details", tweet_id, TRUE),
                            CacheWrite("store_tweet_cache", tweet_id,
                                       [tweet_date |-> tweet_date])>>,
                  expected |-> IsoFormat(tweet_date)]
        ELSE [cache |-> cache,
              log |-> read \o <<Lookup("get_tweet_details", tweet_id, FALSE)>>,
              expected |-> NotFound]

\* lines 173-186: "raise" when the miner sent no date (None has no replace),
\* "invalid" on a ValueError, else whether the two dates are equal
ValidateTweetDate(expected, actual_tweet_date) ==
    IF expected = NotFound THEN "skipped"
    ELSE IF actual_tweet_date = NotFound THEN "raise"
    ELSE IF ~IsIsoText(actual_tweet_date) THEN "invalid"
    ELSE IF FromIsoFormat(actual_tweet_date) # FromIsoFormat(expected) THEN "mismatch"
    ELSE "equal"

\* lines 188-204: the user from the cache, else from Twitter and into the cache
VerifyUser(cache, user_id, users) ==
    LET user_data == get_user_cache(cache, user_id)
        read == <<CacheRead("get_user_cache", user_id, user_data)>>
    IN  IF user_data # NotFound
        THEN [cache |-> cache, log |-> read, found |-> TRUE]
        ELSE IF user_id = NoId
        THEN [cache |-> cache, log |-> read, found |-> FALSE]
        ELSE IF user_id \in users
        THEN LET user == TwitterUserDetails(user_id)
             IN  [cache |-> store_user_cache(cache, user_id, user.followers_count,
                                             user.verified),
                  log |-> read \o
                          <<Lookup("get_user_details", user_id, TRUE),
                            CacheWrite("store_user_cache", user_id,
                                       [follower_count |-> user.followers_count,
                                        verified |-> user.verified])>>,
                  found |-> TRUE]
        ELSE [cache |-> cache,
              log |-> read \o <<Lookup("get_user_details", user_id, FALSE)>>,
              found |-> FALSE]

\* lines 141-223: the checks of one challenge answer; the calls made on the caches
\* and on Twitter, the caches afterwards, and failed_challenges or the exception
ChallengeChecks(tweets_table, users_table, output, tweets, users) ==
    LET t == VerifyTweet(tweets_table, output.tweet_id, tweets)
        date == ValidateTweetDate(t.expected, output.tweet_date)
    IN  IF date = "raise"
        THEN [tweet_cache |-> t.cache, user_cache |-> users_table, log |-> t.log,
              raised |-> TRUE, failed_challenges |-> 0]
        ELSE LET u == VerifyUser(users_table, output.user_id, users)
             IN  [tweet_cache |-> t.cache, user_cache |-> u.cache,
                  log |-> t.log \o u.log, raised |-> FALSE,
                  failed_challenges |->
                      FailedChallenges(t.expected # NotFound,
                                       date = "equal", u.found)]

\* follower counts the miners of the loop report
LoopFollowerCounts == {FollowerThreshold}

\* ---------------------------------------------------------- validation_loop
StepPcs == {"ranking", "challenging", "scoring", "set_weights", "voting"}

Ended == pc \in {"terminated", "crashed"}

\* shutdown_handler: validator.terminate_event.set()
ShutdownHandler ==
    /\ ~Ended
    /\ ~terminate
    /\ terminate' = TRUE
    /\ flagAt' = (IF pc \in StepPcs \ {"challenging"} THEN "step" ELSE pc)
    /\ UNCHANGED <<dbVars, pc, startedAfterFlag, loopVars, stepVars, swVars>>

\* as LoopTop, with `while True`
LoopTop_NoCheck ==
    /\ pc = "loop_top"
    /\ pc' = "step_start"
    /\ UNCHANGED <<dbVars, flagVars, loopVars, stepVars, swVars>>

\* line 410: while not self.terminate_event.is_set()
LoopTop ==
    /\ pc = "loop_top"
    /\ IF terminate THEN pc' = "terminated"
       ELSE pc' = "step_start"
    /\ UNCHANGED <<dbVars, flagVars, loopVars, stepVars, swVars>>

\* the worklists the chain client can report: the UIDs that have an address
RECURSIVE Ascending(_, _)
Ascending(S, n) ==
    IF n = 0 THEN <<>>
    ELSE IF n \in S THEN Append(Ascending(S, n - 1), n) ELSE Ascending(S, n - 1)

Worklists == { Ascending(S, NumMiners) : S \in SUBSET UIDs }

\* raise_exception_if_not_registered(self.key, modules) raises
KeyNotRegistered(reg) == ~reg

\* lines 298-315: query the chain, raise_exception_if_not_registered, worklist
ValidateStepStart ==
    /\ pc = "step_start"
    /\ startedAfterFlag' = startedAfterFlag + (IF terminate THEN 1 ELSE 0)
    /\ \E reg \in BOOLEAN, wl \in Worklists :
          /\ registered' = reg
          /\ IF KeyNotRegistered(reg)
             THEN /\ worklist' = <<>>
                  /\ pc' = "crashed"
                  /\ error' = "not_registered"
             ELSE /\ worklist' = wl
                  /\ pc' = "ranking"
                  /\ UNCHANGED error
    /\ UNCHANGED <<dbVars, terminate, flagAt, sleep_time, task, response, idx, score_dict,
                   regLog, swVars>>

RankWrite(uid) == <<"rank", uid>>

\* lines 317-322: update_miner_rank for every miner, then one task per miner;
\* the k-th registry write may raise
UpdateRanks ==
    /\ pc = "ranking"
    /\ \/ /\ regLog' = [i \in DOMAIN worklist |-> RankWrite(worklist[i])]
          /\ task' = [i \in DOMAIN worklist |-> TaskAt("todo", 0)]
          /\ response' = [i \in DOMAIN worklist |-> NoResponse]
          /\ pc' = "challenging"
          /\ UNCHANGED error
       \/ \E k \in DOMAIN worklist :
             /\ regLog' = [i \in 1..(k - 1) |-> RankWrite(worklist[i])]
             /\ pc' = "crashed"
             /\ error' = "registry"
             /\ UNCHANGED <<task, response>>
    /\ UNCHANGED <<dbVars, flagVars, registered, sleep_time, worklist, idx, score_dict, swVars>>

taskFrame == <<dbVars, flagVars, registered, sleep_time, worklist, idx, score_dict, regLog,
               swVars>>

\* as TaskFailed, with the exception leaving _challenge_miner and asyncio.gather
TaskFailed_Propagates(i) ==
    /\ pc' = "crashed"
    /\ error' = "task"
    /\ UNCHANGED <<task, response>>

\* _challenge_miner's handling of an exception of its task: log, return None
TaskFailed(i) ==
    /\ task' = [task EXCEPT ![i] = TaskAt("done", 0)]
    /\ response' = [response EXCEPT ![i] = NoResponse]
    /\ UNCHANGED <<pc, error>>

\* lines 89-91, 109-121: the discovery call of task i answers, raises or times out
GetDiscovery(i) ==
    /\ pc = "challenging"
    /\ i \in DOMAIN task /\ task[i].at = "todo"
    /\ \/ \E version \in DiscoveryVersions :
             /\ task' = [task EXCEPT ![i] = TaskAt("discovered", version)]
             /\ UNCHANGED <<pc, error, response>>
       \/ TaskFailed(i)
    /\ UNCHANGED taskFrame

\* lines 96-100, 123-223: the challenge call of task i and its verification
PerformChallenges(i) ==
    /\ pc = "challenging"
    /\ i \in DOMAIN task /\ task[i].at = "discovered"
    /\ \/ \E tweet_found, date_matches, user_found \in BOOLEAN,
             followers \in LoopFollowerCounts :
             /\ task' = [task EXCEPT ![i] = TaskAt("done", 0)]
             /\ response' = [response EXCEPT ![i] =
                    ChallengeResponse(worklist[i],
                        FailedChallenges(tweet_found, date_matches, user_found),
                        followers, task[i].discovery)]
             /\ UNCHANGED <<pc, error>>
       \/ TaskFailed(i)
    /\ UNCHANGED taskFrame

\* as Gather, with validate_step returning at once when the flag is set
Gather_ReturnOnFlag ==
    /\ pc = "challenging"
    /\ IF terminate
       THEN /\ pc' = "returned"
            /\ UNCHANGED idx
       ELSE /\ \A i \in DOMAIN task : task[i].at = "done"
            /\ pc' = "scoring"
            /\ idx' = 1
    /\ UNCHANGED <<dbVars, flagVars, loopVars, worklist, task, response, score_dict, regLog,
                   swVars>>

\* as Gather, with the wait ending when the first task has completed
Gather_FirstCompleted ==
    /\ pc = "challenging"
    /\ \/ task = <<>>
       \/ \E i \in DOMAIN task : task[i].at = "done"
    /\ pc' = "scoring"
    /\ idx' = 1
    /\ UNCHANGED <<dbVars, flagVars, loopVars, worklist, task, response, score_dict, regLog,
                   swVars>>

\* as Gather, with the responses in the order in which the tasks completed
Gather_AsCompleted ==
    /\ pc = "challenging"
    /\ \A i \in DOMAIN task : task[i].at = "done"
    /\ pc' = "scoring"
    /\ idx' = 1
    /\ response' \in {response, Reverse(response)}
    /\ UNCHANGED <<dbVars, flagVars, loopVars, worklist, task, score_dict, regLog,
                   swVars>>

\* line 324: responses = await asyncio.gather(*challenge_tasks)
Gather ==
    /\ pc = "challenging"
    /\ \A i \in DOMAIN task : task[i].at = "done"
    /\ pc' = "scoring"
    /\ idx' = 1
    /\ UNCHANGED <<dbVars, flagVars, loopVars, worklist, task, response, score_dict, regLog,
                   swVars>>

\* receipt multipliers of the miners of the loop, in halves: no receipt, 1
LoopMultipliers2 == {2}

\* base weights of the loop: one token, which every miner of the loop serves
LoopBaseWeights == <<<<"PEPE", 1>>>>

\* get_receipts_count_by_tokens() of the loop: no receipts
LoopOrganicUsage == <<>>

MetadataWrite(uid) == <<"metadata", uid>>

ChallengesWrite(uid) == <<"challenges", uid>>

\* lines 326-361: one round of the scoring loop
ScoreNext ==
    /\ pc = "scoring"
    /\ idx \in DOMAIN worklist
    /\ LET uid == worklist[idx]
           resp == response[idx]
       IN  IF ~resp.ok
           THEN /\ score_dict' = Put(score_dict, uid, FloatZero)
                /\ idx' = idx + 1
                /\ UNCHANGED <<pc, error, regLog>>
           ELSE \E m2 \in LoopMultipliers2 :
                   /\ score_dict' = Put(score_dict, uid,
                          weighted_score(_score_miner(resp, m2),
                              adjust_token_weights_with_min_threshold(
                                  LoopBaseWeights, LoopOrganicUsage),
                              "PEPE"))
                   /\ \/ /\ regLog' = regLog \o <<MetadataWrite(uid),
                                                  ChallengesWrite(uid)>>
                         /\ idx' = idx + 1
                         /\ UNCHANGED <<pc, error>>
                      \/ \* store_miner_metadata raises
                         /\ pc' = "crashed"
                         /\ error' = "registry"
                         /\ UNCHANGED <<regLog, idx>>
                      \/ \* update_miner_challenges raises
                         /\ regLog' = Append(regLog, MetadataWrite(uid))
                         /\ pc' = "crashed"
                         /\ error' = "registry"
                         /\ UNCHANGED idx
    /\ UNCHANGED <<dbVars, flagVars, registered, sleep_time, worklist, task, response, swVars>>

\* lines 363-368: return when score_dict is empty, else call set_weights
ScoringDone ==
    /\ pc = "scoring"
    /\ idx = Len(worklist) + 1
    /\ IF score_dict = <<>>
       THEN /\ pc' = "returned"
            /\ UNCHANGED maxAllowed
       ELSE /\ pc' = "set_weights"
            /\ maxAllowed' \in 1..NumMiners
    /\ UNCHANGED <<dbVars, flagVars, loopVars, stepVars, cut, stored, readMap, ballot, swLog,
                   swError, lastVote>>

\* the locals of validate_step and set_weights are gone once the call has returned
LocalsDropped ==
    /\ worklist' = <<>> /\ task' = <<>> /\ response' = <<>> /\ idx' = 0
    /\ score_dict' = <<>> /\ regLog' = <<>> /\ maxAllowed' = 0 /\ cut' = <<>>
    /\ readMap' = <<>> /\ ballot' = NoBallot /\ swLog' = <<>> /\ swError' = FALSE

\* lines 413-420: the check after validate_step, then elapsed against the interval
PostIterationCheck ==
    /\ pc = "returned"
    /\ IF terminate
       THEN /\ pc' = "terminated"
            /\ UNCHANGED sleep_time
       ELSE \E interval \in 1..MaxInterval, elapsed \in 0..MaxInterval :
               IF elapsed < interval
               THEN /\ sleep_time' = interval - elapsed
                    /\ pc' = "sleeping"
               ELSE /\ sleep_time' = 0
                    /\ pc' = "loop_top"
    /\ LocalsDropped
    /\ UNCHANGED <<dbVars, flagVars, error, registered, stored, lastVote>>

\* line 421: terminate_event.wait(sleep_time) returns on the flag or on the timeout
SleepWait ==
    /\ pc = "sleeping"
    /\ pc' = "post_sleep"
    /\ sleep_time' = 0
    /\ UNCHANGED <<dbVars, flagVars, error, registered, stepVars, swVars>>

\* as PostSleepCheck, without the check
PostSleepCheck_NoCheck ==
    /\ pc = "post_sleep"
    /\ pc' = "loop_top"
    /\ UNCHANGED <<dbVars, flagVars, loopVars, stepVars, swVars>>

\* lines 422-424: the check after the wait
PostSleepCheck ==
    /\ pc = "post_sleep"
    /\ pc' = IF terminate THEN "terminated" ELSE "loop_top"
    /\ UNCHANGED <<dbVars, flagVars, loopVars, stepVars, swVars>>

Init ==
    /\ LoopIdle
    /\ DbIdle
    /\ pc = "loop_top"
    /\ score_dict = <<>> /\ maxAllowed = 0 /\ cut = <<>>
    /\ stored = <<>> /\ readMap = <<>> /\ ballot = NoBallot /\ swLog = <<>>
    /\ swError = FALSE /\ lastVote = NoBallot

Next ==
    \/ ShutdownHandler
    \/ LoopTop
    \/ ValidateStepStart
    \/ UpdateRanks
    \/ \E i \in 1..NumMiners : GetDiscovery(i)
    \/ \E i \in 1..NumMiners : PerformChallenges(i)
    \/ Gather
    \/ ScoreNext
    \/ ScoringDone
    \/ SetWeightsStore
    \/ SetWeightsVote
    \/ PostIterationCheck
    \/ SleepWait
    \/ PostSleepCheck

Spec == Init /\ [][Next]_vars

\* the steps of validation_loop between two calls of validate_step; the event loop
\* runs a coroutine that is ready, and the wait of line 421 has a timeout
LoopStep ==
    \/ LoopTop
    \/ PostIterationCheck
    \/ SleepWait
    \/ PostSleepCheck

SpecFair == Init /\ [][Next]_vars /\ WF_vars(LoopStep)

\* ------------------------------------------------- the caches on their own
MaxStores == 2

\* the store calls of a log, added to the store calls made so far
RECURSIVE WrittenAfter(_, _)
WrittenAfter(w, log) ==
    IF log = <<>> THEN w
    ELSE LET e == log[1]
             next ==
                 IF e.op = "store_tweet_cache"
                 THEN [w EXCEPT !.tweet[e.id] =
                          [n |-> w.tweet[e.id].n + 1, fields |-> e.fields,
                           prev |-> w.tweet[e.id].fields]]
                 ELSE IF e.op = "store_user_cache"
                 THEN [w EXCEPT !.user[e.id] =
                          [n |-> w.user[e.id].n + 1, fields |-> e.fields,
                           prev |-> w.user[e.id].fields]]
                 ELSE w
         IN  WrittenAfter(next, Tail(log))

cacheFrame == <<pc, flagVars, loopVars, stepVars, swVars, miner_discovery>>

\* tweet_cache_manager.store_tweet_cache(tweet_id, tweet_date)
StoreTweetCache ==
    /\ pc = "caches"
    /\ \E tweet_id \in TweetIds, tweet_date \in DateTimes :
          LET call == CacheWrite("store_tweet_cache", tweet_id,
                                 [tweet_date |-> tweet_date])
          IN  /\ written.tweet[tweet_id].n < MaxStores
              /\ tweet_cache' = store_tweet_cache(tweet_cache, tweet_id, tweet_date)
              /\ written' = WrittenAfter(written, <<call>>)
              /\ dbCall' = call
    /\ UNCHANGED <<user_cache, cacheFrame>>

\* tweet_cache_manager.get_tweet_cache(tweet_id)
GetTweetCache ==
    /\ pc = "caches"
    /\ \E tweet_id \in TweetIds :
          dbCall' = [op |-> "get_tweet_cache", id |-> tweet_id,
                     ret |-> get_tweet_cache(tweet_cache, tweet_id)]
    /\ UNCHANGED <<tweet_cache, user_cache, written, cacheFrame>>

\* user_cache_manager.store_user_cache(user_id, follower_count, verified)
StoreUserCache ==
    /\ pc = "caches"
    /\ \E user_id \in UserIds, follower_count \in FollowerCounts :
          LET call == CacheWrite("store_user_cache", user_id,
                                 [follower_count |-> IntValue(follower_count),
                                  verified |-> follower_count > FollowerThreshold])
          IN  /\ written.user[user_id].n < MaxStores
              /\ user_cache' = store_user_cache(user_cache, user_id,
                                                call.fields.follower_count,
                                                call.fields.verified)
              /\ written' = WrittenAfter(written, <<call>>)
              /\ dbCall' = call
    /\ UNCHANGED <<tweet_cache, cacheFrame>>

\* user_cache_manager.get_user_cache(user_id)
GetUserCache ==
    /\ pc = "caches"
    /\ \E user_id \in UserIds :
          dbCall' = [op |-> "get_user_cache", id |-> user_id,
                     ret |-> get_user_cache(user_cache, user_id)]
    /\ UNCHANGED <<tweet_cache, user_cache, written, cacheFrame>>

\* the checks of _perform_challenges on one answer of a miner
CheckChallenge ==
    /\ pc = "caches"
    /\ \E tweet_id \in TweetIds \cup {NoId}, user_id \in UserIds \cup {NoId},
          tweet_date \in MinerTweetDates :
       \E on_twitter \in SUBSET {tweet_id, user_id} :
          LET output == [tweet_id |-> tweet_id, user_id |-> user_id,
                         tweet_date |-> tweet_date]
              r == ChallengeChecks(tweet_cache, user_cache, output,
                                   on_twitter \cap TweetIds, on_twitter \cap UserIds)
          IN  /\ tweet_cache' = r.tweet_cache
              /\ user_cache' = r.user_cache
              /\ written' = WrittenAfter(written, r.log)
              /\ dbCall' = [op |-> "_perform_challenges", log |-> r.log,
                            raised |-> r.raised,
                            failed_challenges |-> r.failed_challenges]
    /\ UNCHANGED cacheFrame

InitCache ==
    /\ LoopIdle
    /\ DbIdle
    /\ pc = "caches"
    /\ score_dict = <<>> /\ maxAllowed = 0 /\ cut = <<>>
    /\ stored = <<>> /\ readMap = <<>> /\ ballot = NoBallot /\ swLog = <<>>
    /\ swError = FALSE /\ lastVote = NoBallot

NextCache ==
    \/ StoreTweetCache
    \/ GetTweetCache
    \/ StoreUserCache
    \/ GetUserCache
    \/ CheckChallenge

SpecCache == InitCache /\ [][NextCache]_vars

\* ------------------------------------------- the miner registry on its own
MaxTime == 4

\* emissions a miner can have, as ranks
Ranks == {7, 9}

\* total_challenges_inc of the call in validate_step
ChallengesPerRound == 2

registryFrame == <<pc, flagVars, loopVars, stepVars, swVars, tweet_cache, user_cache,
                   written>>

\* a call of a manager function at the next tick of the clock, for the record a
\* caller means by (miner_key, token)
RegistryCall(op, miner_key, token, raised) ==
    [op |-> op, miner_key |-> miner_key, token |-> token, raised |-> raised,
     now |-> dbCall.now + 1, before |-> miner_discovery.rows]

\* miner_discovery_manager.store_miner_metadata(uid, miner_key, ..., token, ...)
StoreMinerMetadata ==
    /\ pc = "registry"
    /\ dbCall.now < MaxTime
    /\ \E uid \in UIDs, miner_key \in MinerKeys, token \in Tokens :
          LET r == store_miner_metadata(miner_discovery, uid, miner_key, token,
                                        dbCall.now + 1)
          IN  /\ miner_discovery' = r.table
              /\ dbCall' = RegistryCall("store_miner_metadata", miner_key, token,
                                        r.raised)
    /\ UNCHANGED registryFrame

\* miner_discovery_manager.update_miner_rank(miner_key, new_rank)
UpdateMinerRank ==
    /\ pc = "registry"
    /\ dbCall.now < MaxTime
    /\ \E miner_key \in MinerKeys, token \in Tokens, new_rank \in Ranks :
          /\ miner_discovery' = update_miner_rank(miner_discovery, miner_key,
                                                  new_rank)
          /\ dbCall' = RegistryCall("update_miner_rank", miner_key, token, FALSE)
    /\ UNCHANGED registryFrame

\* miner_discovery_manager.update_miner_challenges(miner_key, failed_challenges, 2)
UpdateMinerChallenges ==
    /\ pc = "registry"
    /\ dbCall.now < MaxTime
    /\ \E miner_key \in MinerKeys, token \in Tokens, failed_challenges \in RoundFailures :
          /\ miner_discovery' = update_miner_challenges(miner_discovery, miner_key,
                                    failed_challenges, ChallengesPerRound)
          /\ dbCall' = RegistryCall("update_miner_challenges", miner_key, token,
                                    FALSE)
    /\ UNCHANGED registryFrame

\* miner_discovery_manager.remove_miner_by_key(miner_key)
RemoveMinerByKey ==
    /\ pc = "registry"
    /\ dbCall.now < MaxTime
    /\ \E miner_key \in MinerKeys, token \in Tokens :
          /\ miner_discovery' = remove_miner_by_key(miner_discovery, miner_key)
          /\ dbCall' = RegistryCall("remove_miner_by_key", miner_key, token, FALSE)
    /\ UNCHANGED registryFrame

\* the database as migration 001 creates it, or with the unique index on
\* (miner_key, token)
InitRegistry ==
    /\ LoopIdle
    /\ pc = "registry"
    /\ tweet_cache = <<>> /\ user_cache = <<>> /\ written = NoWrites
    /\ miner_discovery \in { [unique |-> u, rows |-> <<>>] :
                                 u \in {Migration001, KeyTokenIndex} }
    /\ dbCall = [op |-> "none", now |-> 0]
    /\ score_dict = <<>> /\ maxAllowed = 0 /\ cut = <<>>
    /\ stored = <<>> /\ readMap = <<>> /\ ballot = NoBallot /\ swLog = <<>>
    /\ swError = FALSE /\ lastVote = NoBallot

NextRegistry ==
    \/ StoreMinerMetadata
    \/ UpdateMinerRank
    \/ UpdateMinerChallenges
    \/ RemoveMinerByKey

SpecRegistry == InitRegistry /\ [][NextRegistry]_vars

\* ------------------------------- the registry over iterations of validate_step
\* a module of miners_module_info with the emission the chain reports for it, and
\* what its challenge task returned: nothing, or a token and failed_challenges
StepMiner(uid, miner_key, emissions, tokens) ==
    { [uid |-> uid, miner_key |-> miner_key, emission |-> emission,
       ok |-> answer[1], token |-> answer[2], failed_challenges |-> answer[3]] :
          emission \in emissions,
          answer \in {<<FALSE, "PEPE", 0>>} \cup
                     { <<TRUE, token, failed>> :
                           token \in tokens, failed \in RoundFailures } }

\* the first miner changes its emission and its token between iterations, the
\* second keeps them
FirstMiner == StepMiner(1, "k1", Ranks, Tokens)

SecondMiner == StepMiner(2, "k2", {9}, {"PEPE"})

\* miners_module_info of one iteration: one entry per key of the modules
StepWorklists ==
    { <<m>> : m \in FirstMiner \cup SecondMiner } \cup
    { <<m1, m2>> : m1 \in FirstMiner, m2 \in SecondMiner }

\* iterations of validate_step
MaxRounds == 2

\* lines 317-318: update_miner_rank for every miner of the worklist
RECURSIVE RankAll(_, _)
RankAll(table, miners) ==
    IF miners = <<>> THEN table
    ELSE RankAll(update_miner_rank(table, Head(miners).miner_key,
                                   Head(miners).emission),
                 Tail(miners))

\* lines 326-361: store_miner_metadata and update_miner_challenges for every
\* miner that answered, in the order of the worklist; an exception of the
\* database leaves validate_step
RECURSIVE StoreAnswered(_, _, _)
StoreAnswered(table, miners, now) ==
    IF miners = <<>> THEN [raised |-> FALSE, table |-> table]
    ELSE IF ~Head(miners).ok THEN StoreAnswered(table, Tail(miners), now)
    ELSE LET m == Head(miners)
             r == store_miner_metadata(table, m.uid, m.miner_key, m.token, now)
         IN  IF r.raised THEN r
             ELSE StoreAnswered(
                      update_miner_challenges(r.table, m.miner_key,
                                              m.failed_challenges,
                                              ChallengesPerRound),
                      Tail(miners), now)

\* the writes validate_step makes on the registry in one iteration
ValidateStepWrites ==
    /\ pc = "registry"
    /\ dbCall.now < MaxRounds
    /\ \E miners \in StepWorklists :
          LET r == StoreAnswered(RankAll(miner_discovery, miners), miners,
                                 dbCall.now + 1)
          IN  /\ miner_discovery' = r.table
              /\ dbCall' = [op |-> "validate_step", miners |-> miners,
                            raised |-> r.raised, now |-> dbCall.now + 1,
                            before |-> miner_discovery.rows]
    /\ UNCHANGED registryFrame

SpecStep == InitRegistry /\ [][ValidateStepWrites]_vars

\* ------------------------------------------------- _score_miner on its own
\* follower counts a miner can claim
FollowerCountInputs == {0, 1000, 1001, 1000000}

\* receipt multipliers of at least 1, in halves
Multipliers2AtLeastOne == {2, 3, 4}

\* receipt multipliers get_receipt_miner_multiplier can return, in halves
ReceiptMultipliers2 == {0, 1} \cup Multipliers2AtLeastOne

\* lines 343-349: the receipt multiplier, then
\* score = self._score_miner(response, receipt_miner_multiplier)
ScoreMiner ==
    /\ pc = "score_miner"
    /\ \E m2 \in ReceiptMultipliers2 :
          /\ score_dict' = <<<<worklist[1], _score_miner(response[1], m2)>>>>
          /\ dbCall' = [op |-> "get_receipt_miner_multiplier", multiplier2 |-> m2]
    /\ pc' = "scored"
    /\ UNCHANGED <<tweet_cache, user_cache, written, miner_discovery, flagVars,
                   loopVars, worklist, task, response, idx, regLog, swVars>>

\* the most tokens a configuration of base weights names
MaxTokens == 7

TokenNames == <<"PEPE", "DOGE", "SHIB", "WIF", "BONK", "FLOKI", "BRETT", "MOG">>

\* base weights load_base_weights() can return: one token, two equal tokens, or
\* MaxTokens tokens of which the first outweighs the others
BaseWeightConfigs ==
    { [i \in 1..n |-> <<TokenNames[i], IF i = 1 /\ n > 2 THEN 94 ELSE 1>>] :
          n \in {1, 2, MaxTokens} }

\* receipt counts by token: no receipts, or all for the first token
OrganicUsages == {<<>>, <<<<"PEPE", 5>>>>}

\* lines 339-358: the score of ScoreMiner weighted by the share of the miner's
\* token; a token without base weight is a KeyError, a weighted score above 1 an
\* AssertionError
WeighScore ==
    /\ pc = "scored"
    /\ \E base_weights \in BaseWeightConfigs, organic_usage \in OrganicUsages,
          token \in {"PEPE", "DOGE"} :
          LET adjusted_weights ==
                  adjust_token_weights_with_min_threshold(base_weights, organic_usage)
              score == weighted_score(Get(score_dict, worklist[1]), adjusted_weights,
                                      token)
          IN  IF token \notin Keys(base_weights)
              THEN /\ pc' = "crashed" /\ error' = "KeyError"
                   /\ UNCHANGED score_dict
              ELSE IF FLess(ScoreOne, score)
              THEN /\ pc' = "crashed" /\ error' = "AssertionError"
                   /\ UNCHANGED score_dict
              ELSE /\ pc' = "weighted"
                   /\ score_dict' = <<<<worklist[1], score>>>>
                   /\ UNCHANGED error
    /\ UNCHANGED <<dbVars, flagVars, registered, sleep_time, worklist, task, response,
                   idx, regLog, swVars>>

InitScore ==
    /\ terminate = FALSE /\ flagAt = "never" /\ startedAfterFlag = 0
    /\ error = "none" /\ registered = TRUE /\ sleep_time = 0
    /\ DbIdle
    /\ pc = "score_miner"
    /\ worklist = <<1>> /\ task = <<TaskAt("done", 0)>> /\ idx = 1 /\ regLog = <<>>
    /\ response \in
          { <<r>> : r \in {NoResponse} \cup
                { ChallengeResponse(1, failed, followers, VERSION) :
                      failed \in 0..3, followers \in FollowerCountInputs } }
    /\ score_dict = <<>> /\ maxAllowed = 0 /\ cut = <<>>
    /\ stored = <<>> /\ readMap = <<>> /\ ballot = NoBallot /\ swLog = <<>>
    /\ swError = FALSE /\ lastVote = NoBallot

NextScore == ScoreMiner \/ WeighScore

SpecScore == InitScore /\ [][NextScore]_vars

\* ---------------------------------------------------------------- query_miner
\* miners a query can be sent to
MaxQueryMiners == 4

\* select_count of query_miner
SelectCount == 3

\* sample_size of query_miner
SampleSize == 16

QueryKeys == <<"k1", "k2", "k3", "k4", "k5">>

\* miner_key = None
NoKey == "None"

\* n records of the token PEPE, the last stored first in the table
QueryRows(n) ==
    [i \in 1..n |->
        [uid |-> i, miner_key |-> QueryKeys[i], token |-> "PEPE",
         timestamp |-> n + 1 - i, rank |-> 0, failed_challenges |-> 0,
         total_challenges |-> ChallengesPerRound, is_trusted |-> 0]]

\* rows in the order of (timestamp, rank)
RECURSIVE OrderedByTimestampRank(_)
OrderedByTimestampRank(rows) ==
    IF rows = <<>> THEN <<>>
    ELSE LET first == CHOOSE i \in DOMAIN rows :
                 \A j \in DOMAIN rows :
                     \/ rows[i].timestamp < rows[j].timestamp
                     \/ /\ rows[i].timestamp = rows[j].timestamp
                        /\ rows[i].rank < rows[j].rank
                     \/ /\ rows[i].timestamp = rows[j].timestamp
                        /\ rows[i].rank = rows[j].rank
                        /\ i <= j
         IN  <<rows[first]>> \o OrderedByTimestampRank(RemoveAt(rows, first))

\* SELECT ... WHERE token = :token ORDER BY timestamp, rank
get_miners_by_token(table, token) ==
    OrderedByTimestampRank(SelectSeq(table.rows, LAMBDA r : r.token = token))

\* SELECT ... WHERE miner_key = :miner_key AND token = :token, first row or None
get_miner_by_key(table, miner_key, token) ==
    SelectSeq(table.rows, LAMBDA r : r.miner_key = miner_key /\ r.token = token)

\* sample(population, k): k distinct elements in any order
Sample(population, k) ==
    { [i \in 1..k |-> population[picks[i]]] :
          picks \in { f \in [1..k -> DOMAIN population] :
                          \A a, b \in 1..k : f[a] = f[b] => a = b } }

\* lines 458-461: all miners when there are fewer than 3, else 3 of the first 16
TopMiners(miners) ==
    IF Len(miners) < SelectCount THEN {miners}
    ELSE Sample(SubSeq(miners, 1, Min(SampleSize, Len(miners))), SelectCount)

\* what a call of query_miner did: the miners queried, which of them answered,
\* the miners store_miner_receipt and accept_miner_receipt were called for under
\* the request_id of the call, and the exception that left the call
QueryResult(miner_key, top_miners, answers, receipts, accepted, raised) ==
    [op |-> "query_miner", miner_key |-> miner_key,
     miner_keys |-> [i \in DOMAIN top_miners |-> top_miners[i].miner_key],
     responses |-> answers, stored |-> receipts, accepted |-> accepted,
     raised |-> raised]

\* lines 431-450: query_miner for one miner
QueryOneMiner(token, miner_key) ==
    LET miner == get_miner_by_key(miner_discovery, miner_key, token)
    IN  IF miner = <<>>
        THEN dbCall' = QueryResult(miner_key, <<>>, <<>>, {}, NoKey, "none")
        ELSE \E answer \in BOOLEAN :
                 dbCall' = QueryResult(miner_key, <<miner[1]>>, <<answer>>,
                                       {miner_key}, NoKey, "none")

\* lines 451-485: query_miner for the miners of a token; random.choice of an
\* empty list raises IndexError
QueryTopMiners(token) ==
    \E top_miners \in TopMiners(get_miners_by_token(miner_discovery, token)) :
        \E responses \in [DOMAIN top_miners -> BOOLEAN] :
            LET receipts == { top_miners[i].miner_key :
                                  i \in { j \in DOMAIN top_miners : responses[j] } }
            IN  IF top_miners = <<>>
                THEN dbCall' = QueryResult(NoKey, top_miners, responses, receipts,
                                           NoKey, "IndexError")
                ELSE \E choice \in DOMAIN top_miners :
                         dbCall' = QueryResult(NoKey, top_miners, responses, receipts,
                                               top_miners[choice].miner_key, "none")

\* Validator.query_miner(token, query, miner_key)
QueryMiner ==
    /\ pc = "query"
    /\ \E token \in Tokens :
          \/ \E i \in 1..MaxQueryMiners : QueryOneMiner(token, QueryKeys[i])
          \/ QueryTopMiners(token)
    /\ UNCHANGED <<registryFrame, miner_discovery>>

\* the registry as migration 001 leaves it, or with records of up to
\* MaxQueryMiners miners
InitQuery ==
    /\ LoopIdle
    /\ pc = "query"
    /\ tweet_cache = <<>> /\ user_cache = <<>> /\ written = NoWrites
    /\ miner_discovery \in
          {[unique |-> Migration001, rows |-> <<>>]} \cup
          { [unique |-> KeyTokenIndex, rows |-> QueryRows(n)] :
                n \in 0..MaxQueryMiners }
    /\ dbCall = NoCall
    /\ score_dict = <<>> /\ maxAllowed = 0 /\ cut = <<>>
    /\ stored = <<>> /\ readMap = <<>> /\ ballot = NoBallot /\ swLog = <<>>
    /\ swError = FALSE /\ lastVote = NoBallot

SpecQuery == InitQuery /\ [][QueryMiner]_vars

\* ------------------------------ _perform_challenges of concurrent tasks
\* tasks of one iteration that verify answers at the same time
NumRacing == 2

\* what Twitter holds while the tasks run
Twitter(tweets, users) == [op |-> "twitter", tweets |-> tweets, users |-> users]

\* a task of _perform_challenges with the answer of its miner: where it stands,
\* expected_data["tweet_date"], where the tweet and the user were found, and
\* failed_challenges
RaceTask(at, output, expected, tweet_from, user_from, failed) ==
    [at |-> at, output |-> output, expected |-> expected,
     tweet_from |-> tweet_from, user_from |-> user_from,
     failed_challenges |-> failed]

\* answers the miners of the tasks can give
RaceOutputs ==
    { [tweet_id |-> tweet_id, user_id |-> user_id, tweet_date |-> tweet_date] :
          tweet_id \in TweetIds, user_id \in UserIds \cup {NoId},
          tweet_date \in MinerTweetDates }

\* lines 173-186 for task t, once expected_data is known: the exception leaves
\* _perform_challenges through the except of line 221
AfterTweet(t, expected, tweet_from, failed) ==
    LET date == ValidateTweetDate(expected, t.output.tweet_date)
    IN  IF date = "raise"
        THEN RaceTask("failed", t.output, expected, tweet_from, "", failed)
        ELSE RaceTask("tweet_checked", t.output, expected, tweet_from, "",
                      failed + (IF date \in {"invalid", "mismatch"} THEN 1 ELSE 0))

\* line 148: tweet_data = await get_tweet_cache(tweet_id), lines 149-152
ReadTweetCache(i) ==
    /\ pc = "race"
    /\ i \in DOMAIN task /\ task[i].at = "start"
    /\ LET tweet_data == get_tweet_cache(tweet_cache, task[i].output.tweet_id)
       IN  task' = [task EXCEPT ![i] =
               IF tweet_data # NotFound
               THEN AfterTweet(task[i], tweet_data.tweet_date, "cache", 0)
               ELSE RaceTask("tweet_missed", task[i].output, NotFound, "", "", 0)]
    /\ UNCHANGED <<tweet_cache, user_cache, written, miner_discovery, dbCall, pc,
                   flagVars, loopVars, worklist, response, idx, score_dict, regLog,
                   swVars>>

\* lines 154-171: get_tweet_details and await store_tweet_cache, or a failure
FetchTweet(i) ==
    /\ pc = "race"
    /\ i \in DOMAIN task /\ task[i].at = "tweet_missed"
    /\ LET tweet_id == task[i].output.tweet_id
       IN  IF tweet_id \in dbCall.tweets
           THEN /\ tweet_cache' = store_tweet_cache(tweet_cache, tweet_id,
                                                    TweetCreatedAt(tweet_id))
                /\ task' = [task EXCEPT ![i] =
                       AfterTweet(task[i], IsoFormat(TweetCreatedAt(tweet_id)),
                                  "twitter", 0)]
           ELSE /\ task' = [task EXCEPT ![i] =
                       AfterTweet(task[i], NotFound, "nowhere", 1)]
                /\ UNCHANGED tweet_cache
    /\ UNCHANGED <<user_cache, written, miner_discovery, dbCall, pc, flagVars,
                   loopVars, worklist, response, idx, score_dict, regLog, swVars>>

\* line 189: user_data = await get_user_cache(user_id), lines 190-192
ReadUserCache(i) ==
    /\ pc = "race"
    /\ i \in DOMAIN task /\ task[i].at = "tweet_checked"
    /\ task' = [task EXCEPT ![i] =
           IF get_user_cache(user_cache, task[i].output.user_id) # NotFound
           THEN [task[i] EXCEPT !.at = "done", !.user_from = "cache"]
           ELSE [task[i] EXCEPT !.at = "user_missed"]]
    /\ UNCHANGED <<tweet_cache, user_cache, written, miner_discovery, dbCall, pc,
                   flagVars, loopVars, worklist, response, idx, score_dict, regLog,
                   swVars>>

\* lines 194-204: get_user_details and await store_user_cache, or a failure
FetchUser(i) ==
    /\ pc = "race"
    /\ i \in DOMAIN task /\ task[i].at = "user_missed"
    /\ LET user_id == task[i].output.user_id
           user == TwitterUserDetails(user_id)
       IN  IF user_id \in dbCall.users
           THEN /\ user_cache' = store_user_cache(user_cache, user_id,
                                                  user.followers_count, user.verified)
                /\ task' = [task EXCEPT ![i] =
                       [task[i] EXCEPT !.at = "done", !.user_from = "twitter"]]
           ELSE /\ task' = [task EXCEPT ![i] =
                       [task[i] EXCEPT !.at = "done", !.user_from = "nowhere",
                                       !.failed_challenges = @ + 1]]
                /\ UNCHANGED user_cache
    /\ UNCHANGED <<tweet_cache, written, miner_discovery, dbCall, pc, flagVars,
                   loopVars, worklist, response, idx, score_dict, regLog, swVars>>

\* cold caches, and NumRacing tasks that each hold the answer of their miner
InitRace ==
    /\ terminate = FALSE /\ flagAt = "never" /\ startedAfterFlag = 0
    /\ error = "none" /\ registered = TRUE /\ sleep_time = 0
    /\ worklist = <<>> /\ response = <<>> /\ idx = 0 /\ regLog = <<>>
    /\ pc = "race"
    /\ task \in [1..NumRacing ->
                    { RaceTask("start", output, NotFound, "", "", 0) :
                          output \in RaceOutputs }]
    /\ tweet_cache = <<>> /\ user_cache = <<>> /\ written = NoWrites
    /\ miner_discovery = [unique |-> Migration001, rows |-> <<>>]
    /\ dbCall \in { Twitter(tweets, users) :
                        tweets \in SUBSET TweetIds, users \in SUBSET UserIds }
    /\ score_dict = <<>> /\ maxAllowed = 0 /\ cut = <<>>
    /\ stored = <<>> /\ readMap = <<>> /\ ballot = NoBallot /\ swLog = <<>>
    /\ swError = FALSE /\ lastVote = NoBallot

NextRace ==
    \/ \E i \in 1..NumRacing : ReadTweetCache(i)
    \/ \E i \in 1..NumRacing : FetchTweet(i)
    \/ \E i \in 1..NumRacing : ReadUserCache(i)
    \/ \E i \in 1..NumRacing : FetchUser(i)

SpecRace == InitRace /\ [][NextRace]_vars

\* ------------------------------------------------------ claims on the loop
WorklistUids == { worklist[i] : i \in DOMAIN worklist }

\* C1: an exception or timeout of one miner's discovery or challenge is confined to
\* that miner: it gets the score 0, every other miner of the iteration is still
\* scored, set_weights is still entered, and the exception does not leave
\* validate_step.
C1_TaskFailureConfined ==
    /\ error # "task"
    /\ pc = "scoring" =>
          \A i \in 1..(idx - 1) :
              /\ worklist[i] \in Keys(score_dict)
              /\ ~response[i].ok => Get(score_dict, worklist[i]) = FloatZero
              /\ response[i].ok => FLess(FloatZero, Get(score_dict, worklist[i]))
    /\ (pc \in {"set_weights", "voting", "returned"} /\ worklist # <<>>) =>
          /\ Keys(score_dict) = WorklistUids
          /\ maxAllowed > 0

\* one task failed, the other miner answered and holds the whole vote
C1_Witness ==
    /\ pc = "returned"
    /\ Len(swLog) = 2 /\ ~swError
    /\ \E i, j \in DOMAIN worklist :
          /\ task[i].at = "done" /\ ~response[i].ok
          /\ response[j].ok
          /\ Get(score_dict, worklist[i]) = FloatZero
          /\ Get(stored, worklist[j]) = 1000

\* the part of C2 about the iteration in which the key is missing: validate_step
\* raises before any miner is contacted and before any registry write, nothing is
\* persisted or voted in that iteration, and the error ends validation_loop
NotRegisteredIsFatal ==
    ~registered =>
        /\ pc = "crashed" /\ error = "not_registered"
        /\ task = <<>> /\ response = <<>>
        /\ regLog = <<>>
        /\ swLog = <<>> /\ maxAllowed = 0

\* C2: when the validator's own key is not among the registered modules,
\* validate_step raises before any miner is contacted and before any registry
\* write, nothing is persisted or voted in that iteration, and the error leaves
\* validation_loop and ends it; no other error ends validation_loop.
C2_NotRegisteredIsOnlyFatal ==
    /\ NotRegisteredIsFatal
    /\ pc = "crashed" => error = "not_registered"

\* C3 as claimed: once the termination flag has been set, validation_loop never
\* starts another validate_step.
C3_NoStepAfterFlag == startedAfterFlag = 0

\* C3 as amended: a validate_step starts with the flag set at most once, and only
\* when the flag was set between the loop-top check and the call; a flag that is
\* set when one of the three checks runs makes the loop exit there.
C3_NoStepAfterFlagSeen ==
    /\ startedAfterFlag <= (IF flagAt = "step_start" THEN 1 ELSE 0)
    /\ (terminate /\ flagAt # "step_start") => pc # "step_start"

\* the flag was set during the wait and the loop has ended without another step
C3_Witness ==
    /\ pc = "terminated"
    /\ flagAt = "sleeping"
    /\ startedAfterFlag = 0

\* C4: setting the flag while validate_step runs does not abort the iteration:
\* every task that was launched completes, every miner is scored and set_weights
\* is executed.
C4_FlagDoesNotAbortStep ==
    (pc = "returned" /\ flagAt \in {"step_start", "challenging", "step"}) =>
        /\ Len(task) = Len(worklist)
        /\ \A i \in DOMAIN task : task[i].at = "done"
        /\ Keys(score_dict) = WorklistUids
        /\ worklist # <<>> => (maxAllowed > 0 /\ (swLog # <<>> \/ swError))

\* the flag was set while the tasks were in flight; both answered and the vote
\* was made
C4_Witness ==
    /\ pc = "returned"
    /\ flagAt = "challenging"
    /\ Len(worklist) = 2
    /\ \A i \in DOMAIN response : response[i].ok
    /\ Len(swLog) = 2 /\ ~swError

\* validate_step is being called or is running
InStep == pc \in StepPcs \cup {"step_start"}

\* C5: the loop waits only when iteration_interval - elapsed is positive; a flag set
\* during the wait makes the loop end at the check after the wait, without another
\* iteration; and once the flag is set the loop eventually ends, provided the
\* current validate_step returns.
C5_SleepIsCancellable ==
    /\ [](pc = "sleeping" <=> sleep_time > 0)
    /\ [](flagAt = "sleeping" => pc \in {"sleeping", "post_sleep", "terminated"})
    /\ ((terminate /\ ~InStep) ~> Ended)

\* the flag was set during the wait and the wait has returned
C5_Witness ==
    /\ terminate
    /\ flagAt = "sleeping"
    /\ pc = "post_sleep"
    /\ sleep_time = 0

\* --------------------------------------------------- claims on set_weights

\* the weight file was rewritten by the current set_weights call
Persisted == swLog # <<>>

\* C6: in set_weights every UID kept after truncation is stored with the weight
\* floor(score * 1000 / sum of the kept scores) when that sum is positive and with
\* 0 when the sum is zero; equal scores receive equal weights.
C6_WeightIsFloorOfShare ==
    Persisted =>
        LET score_sum == SumValues(cut)
        IN  /\ \A i \in DOMAIN cut :
                  Get(stored, cut[i][1]) =
                      IF FLess(FloatZero, score_sum)
                      THEN ExactFloorShare(cut[i][2], WeightScale, score_sum)
                      ELSE 0
            /\ \A i, j \in DOMAIN cut :
                  cut[i][2] = cut[j][2] =>
                      Get(stored, cut[i][1]) = Get(stored, cut[j][1])

\* every score of d lies in [0,1]
InUnit(d) == \A i \in DOMAIN d : FLeq(d[i][2], ScoreOne)

RECURSIVE SumSeq(_)
SumSeq(s) == IF s = <<>> THEN 0 ELSE s[1] + SumSeq(Tail(s))

\* C7: after a set_weights call whose scores lie in [0,1], every weight persisted
\* and voted is an integer in 0..1000, and the weights of one vote sum to at most
\* 1000.
C7_WeightsBounded ==
    (Persisted /\ InUnit(score_dict)) =>
        /\ \A i \in DOMAIN stored : stored[i][2] \in 0..1000
        /\ \A k \in DOMAIN swLog :
              /\ \A i \in DOMAIN swLog[k].weights : swLog[k].weights[i] \in 0..1000
              /\ SumSeq(swLog[k].weights) <= 1000

\* a vote of three positive weights whose sum falls short of 1000
C7_Witness ==
    /\ Len(swLog) = 2 /\ swLog[2].op = "vote"
    /\ Len(swLog[2].weights) = 3
    /\ \A i \in DOMAIN swLog[2].weights : swLog[2].weights[i] > 0
    /\ SumSeq(swLog[2].weights) < 1000

\* C8: with more scored miners than max_allowed exactly max_allowed UIDs survive in
\* the persisted and voted weight map and no dropped UID has a score strictly
\* higher than a surviving one; with at most max_allowed miners none is dropped.
C8_Truncation ==
    Persisted =>
        /\ Len(stored) = Min(Len(score_dict), maxAllowed)
        /\ Keys(stored) \subseteq Keys(score_dict)
        /\ \A d \in Keys(score_dict) \ Keys(stored) : \A k \in Keys(stored) :
              FLeq(Get(score_dict, d), Get(score_dict, k))
        /\ \A k \in DOMAIN swLog :
              /\ Len(swLog[k].uids) = Len(stored)
              /\ { swLog[k].uids[i] : i \in DOMAIN swLog[k].uids } = Keys(stored)

\* three scored miners, max_allowed = 2, the vote made, a dropped miner whose
\* score is strictly lower than a surviving one's
C8_Witness ==
    /\ Len(swLog) = 2
    /\ Len(score_dict) = 3 /\ maxAllowed = 2
    /\ \E d \in Keys(score_dict) \ Keys(stored) : \E k \in Keys(stored) :
          FLess(Get(score_dict, d), Get(score_dict, k))

\* C9: after set_weights the UID set of the persisted weight map equals the UID set
\* of the truncated score map, whatever the map read from storage contained: UIDs
\* of an earlier round that are absent from the score map are removed.
C9_PersistedUidsAreScoredUids ==
    Persisted =>
        /\ Keys(stored) = Keys(cut)
        /\ IsDict(stored)

\* the map read held a UID that is not scored now, and the call stored a new UID
C9_Witness ==
    /\ Persisted
    /\ Keys(readMap) \ Keys(cut) # {}
    /\ Keys(cut) \ Keys(readMap) # {}

\* C10: within one set_weights call the weight map is persisted before the vote is
\* submitted; the vote is a single call whose uids and weights have the same length,
\* with weights[i] the persisted weight of uids[i].
C10_PersistThenOneParallelVote ==
    /\ Len(swLog) <= 2
    /\ \A k \in DOMAIN swLog : swLog[k].op = (IF k = 1 THEN "store" ELSE "vote")
    /\ \A k \in DOMAIN swLog :
          swLog[k].op = "vote" =>
              /\ Len(swLog[k].uids) = Len(swLog[k].weights)
              /\ \A i \in DOMAIN swLog[k].uids :
                    /\ swLog[k].uids[i] \in Keys(stored)
                    /\ swLog[k].weights[i] = Get(stored, swLog[k].uids[i])

\* a vote for two UIDs with different weights has been submitted
C10_Witness ==
    /\ Len(swLog) = 2 /\ swLog[2].op = "vote"
    /\ Len(swLog[2].uids) = 2
    /\ swLog[2].weights[1] # swLog[2].weights[2]

\* -------------------------------------------------- claims on the last vote

WeightSettingEntered == maxAllowed > 0

\* C12: within validate_step set_weights is entered only if at least one miner of
\* the iteration returned a response; when every miner failed discovery or
\* challenge, the iteration ends without a store and without a vote.
C12_WeightsOnlyWithUsableScore ==
    /\ WeightSettingEntered => \E i \in DOMAIN response : response[i].ok
    /\ (pc = "returned" /\ \A i \in DOMAIN response : ~response[i].ok) =>
          swLog = <<>>

\* C13: when set_weights raises, in the store or in the vote, the exception is
\* caught inside validate_step, which returns normally; validation_loop then goes
\* to its wait or straight to the loop top, and on to the next validate_step
\* unless the termination flag ends it.
C13_SetWeightsFailureIsCaught ==
    /\ [](swError => (pc = "returned" /\ error = "none"))
    /\ [][(swError /\ ~terminate) => pc' \in {"returned", "sleeping", "loop_top"}]_vars
    /\ ((swError /\ pc = "returned") ~> (pc = "step_start" \/ Ended))

\* the vote call has raised after the store, and validate_step has returned
C13_Witness ==
    /\ pc = "returned"
    /\ swError
    /\ Len(swLog) = 2 /\ swLog[2].op = "vote"
    /\ error = "none"
    /\ ~terminate

\* C14: a Miner Registry write that raises for one miner (rank update, metadata
\* upsert or challenge-counter update) skips only that miner: it does not end
\* validation_loop, and the iteration goes on to score the remaining miners and
\* to set weights.
C14_RegistryFailureSkipsMiner ==
    /\ error # "registry"
    /\ (pc = "returned" /\ worklist # <<>>) => WeightSettingEntered

\* --------------------------------------------------- claims on the caches

\* the calls of the last _perform_challenges
ChecksLog == IF dbCall.op = "_perform_challenges" THEN dbCall.log ELSE <<>>

IsCacheRead(e) == e.op \in {"get_tweet_cache", "get_user_cache"}

IsLookup(e) == e.op \in {"get_tweet_details", "get_user_details"}

IsCacheWrite(e) == e.op \in {"store_tweet_cache", "store_user_cache"}

\* the cache, the lookup and the write of one kind of id go together
SameKind(e, f) ==
    (e.op \in {"get_tweet_cache", "get_tweet_details", "store_tweet_cache"})
        = (f.op \in {"get_tweet_cache", "get_tweet_details", "store_tweet_cache"})

\* C15: in the checks of a challenge answer the cache is read first for the tweet
\* id and for the user id; the Twitter lookup of an id is made only directly after
\* a miss of the cache for that id, never after a hit; a lookup that found the id
\* is directly followed by the write of that id into the cache; a lookup that did
\* not find it is followed by no write for that id.
C15_CachesAreReadThrough ==
    LET log == ChecksLog
    IN  /\ log # <<>> => log[1].op = "get_tweet_cache"
        /\ (log # <<>> /\ ~dbCall.raised) =>
               \E k \in DOMAIN log : log[k].op = "get_user_cache"
        /\ \A k \in DOMAIN log :
              /\ IsLookup(log[k]) =>
                    /\ k > 1
                    /\ IsCacheRead(log[k - 1]) /\ SameKind(log[k - 1], log[k])
                    /\ log[k - 1].id = log[k].id
                    /\ ~log[k - 1].hit
              /\ (IsCacheRead(log[k]) /\ log[k].hit) =>
                    \A j \in DOMAIN log :
                        (j > k /\ SameKind(log[j], log[k])) => FALSE
              /\ (IsLookup(log[k]) /\ log[k].found) =>
                    /\ k < Len(log)
                    /\ IsCacheWrite(log[k + 1]) /\ SameKind(log[k + 1], log[k])
                    /\ log[k + 1].id = log[k].id
              /\ IsCacheWrite(log[k]) =>
                    /\ k > 1
                    /\ IsLookup(log[k - 1]) /\ SameKind(log[k - 1], log[k])
                    /\ log[k - 1].id = log[k].id
                    /\ log[k - 1].found

\* one answer was checked with the tweet in the cache and the user not: no tweet
\* lookup, a user lookup that found the user, and the user written to the cache
C15_Witness ==
    /\ dbCall.op = "_perform_challenges"
    /\ Len(dbCall.log) = 4
    /\ dbCall.log[1].op = "get_tweet_cache" /\ dbCall.log[1].hit
    /\ dbCall.log[2].op = "get_user_cache" /\ ~dbCall.log[2].hit
    /\ dbCall.log[3].op = "get_user_details" /\ dbCall.log[3].found
    /\ dbCall.log[4].op = "store_user_cache"
    /\ dbCall.failed_challenges = 0

\* both caches hold at most one row per id
OneRowPerId ==
    /\ \A i, j \in DOMAIN tweet_cache :
          tweet_cache[i].tweet_id = tweet_cache[j].tweet_id => i = j
    /\ \A i, j \in DOMAIN user_cache :
          user_cache[i].user_id = user_cache[j].user_id => i = j

\* the same value of the same type
SameValue(a, b) == a.type = b.type /\ a = b

\* C16 as claimed: both caches hold at most one row per id; a get returns the
\* fields of the last store of that id, as they were passed to store; a get of an
\* id that was never stored returns not-found.
C16_CacheRoundTrip ==
    /\ OneRowPerId
    /\ dbCall.op = "get_tweet_cache" =>
          LET w == written.tweet[dbCall.id]
          IN  IF w.n = 0 THEN dbCall.ret = NotFound
              ELSE /\ dbCall.ret # NotFound
                   /\ SameValue(dbCall.ret.tweet_date, w.fields.tweet_date)
    /\ dbCall.op = "get_user_cache" =>
          LET w == written.user[dbCall.id]
          IN  IF w.n = 0 THEN dbCall.ret = NotFound
              ELSE /\ dbCall.ret # NotFound
                   /\ SameValue(dbCall.ret.follower_count, w.fields.follower_count)
                   /\ dbCall.ret.verified = w.fields.verified

\* C16 as amended: both caches hold at most one row per id; a get returns the id
\* and the fields of the last store of that id in their text form, the date as
\* its isoformat() text and the follower count as its decimal text, and verified
\* unchanged; a get of an id that was never stored returns not-found.
C16_CacheRoundTripAsText ==
    /\ OneRowPerId
    /\ dbCall.op = "get_tweet_cache" =>
          LET w == written.tweet[dbCall.id]
          IN  IF w.n = 0 THEN dbCall.ret = NotFound
              ELSE dbCall.ret = [tweet_id |-> dbCall.id,
                                 tweet_date |-> IsoFormat(w.fields.tweet_date)]
    /\ dbCall.op = "get_user_cache" =>
          LET w == written.user[dbCall.id]
          IN  IF w.n = 0 THEN dbCall.ret = NotFound
              ELSE dbCall.ret = [user_id |-> dbCall.id,
                                 follower_count |-> Str(w.fields.follower_count),
                                 verified |-> w.fields.verified]

\* a tweet was stored twice with different dates, the other tweet once, and the
\* get of the first returns the text of the second date, microseconds included
C16_Witness ==
    /\ dbCall.op = "get_tweet_cache"
    /\ written.tweet[dbCall.id].n = 2
    /\ written.tweet[dbCall.id].prev # written.tweet[dbCall.id].fields
    /\ Len(tweet_cache) = 2
    /\ dbCall.ret # NotFound
    /\ Len(dbCall.ret.tweet_date.chars) = 10
    /\ FromIsoFormat(dbCall.ret.tweet_date) = written.tweet[dbCall.id].fields.tweet_date

\* ------------------------------------------------- claims on the registry

\* the last call was made on the Miner Registry
IsRegistryCall(ops) == dbCall.op \in ops

RowsOf(rows, miner_key, token) ==
    { i \in DOMAIN rows : rows[i].miner_key = miner_key /\ rows[i].token = token }

\* C17: the Miner Registry holds at most one record per (miner_key, token); a
\* store_miner_metadata call leaves exactly one record for its pair, carrying the
\* time of the call, also when the same arguments were stored before, and it
\* leaves the records of other pairs as they were, so that the same miner_key
\* under another token is a second, separate record.
C17_RegistryUpsert ==
    /\ \A i, j \in DOMAIN miner_discovery.rows :
          (/\ miner_discovery.rows[i].miner_key = miner_discovery.rows[j].miner_key
           /\ miner_discovery.rows[i].token = miner_discovery.rows[j].token) => i = j
    /\ IsRegistryCall({"store_miner_metadata"}) =>
          /\ ~dbCall.raised
          /\ \E i \in DOMAIN miner_discovery.rows :
                /\ RowsOf(miner_discovery.rows, dbCall.miner_key, dbCall.token) = {i}
                /\ miner_discovery.rows[i].timestamp = dbCall.now
          /\ \A k \in DOMAIN dbCall.before :
                (dbCall.before[k].miner_key # dbCall.miner_key
                    \/ dbCall.before[k].token # dbCall.token) =>
                \E i \in DOMAIN miner_discovery.rows :
                    miner_discovery.rows[i] = dbCall.before[k]

\* C18: update_miner_rank, update_miner_challenges and remove_miner_by_key change
\* only the record of the (miner_key, token) they are called for; every other
\* record, also one of the same miner_key under another token, is left as it was.
C18_RegistryWritesOneRecord ==
    IsRegistryCall({"update_miner_rank", "update_miner_challenges",
                    "remove_miner_by_key"}) =>
        \A k \in DOMAIN dbCall.before :
            (dbCall.before[k].miner_key # dbCall.miner_key
                \/ dbCall.before[k].token # dbCall.token) =>
            \E i \in DOMAIN miner_discovery.rows :
                miner_discovery.rows[i] = dbCall.before[k]

\* ------------------------------------------------- claims on _score_miner

\* C19: with a receipt multiplier of at least 1, _score_miner returns 1.0 for a
\* response with 0 failed challenges, 0.7 for 1, 0.3 for 2 and 0 for 3, whatever
\* the follower count, and 0 for an empty response.
C19_ScoreLadder ==
    (pc = "scored" /\ dbCall.multiplier2 \in Multipliers2AtLeastOne) =>
        Get(score_dict, 1) =
            IF ~response[1].ok THEN FloatZero
            ELSE IF response[1].failed_challenges = 0 THEN ScoreOne
            ELSE IF response[1].failed_challenges = 1 THEN Score1Failure
            ELSE IF response[1].failed_challenges = 2 THEN Score2Failures
            ELSE FloatZero

\* -------------------------------------------- claims on the protocol version

\* C20: a miner whose discovery answer carries another version than the
\* validator's is dropped for the iteration: its challenge is not answered into a
\* response, its score is 0, and no metadata or challenge-counter write is made
\* for it.
C20_VersionMismatchIsDropped ==
    /\ \A i \in DOMAIN task :
          (task[i].at = "done" /\ response[i].ok) => response[i].version = VERSION
    /\ \A i \in DOMAIN response :
          (response[i].ok /\ response[i].version # VERSION) =>
              /\ worklist[i] \in Keys(score_dict) =>
                    Get(score_dict, worklist[i]) = FloatZero
              /\ \A k \in DOMAIN regLog :
                    regLog[k] \notin {MetadataWrite(worklist[i]),
                                      ChallengesWrite(worklist[i])}

\* ------------------------------------------------- claims on the fraud gate

\* the last _perform_challenges looked an id up on Twitter and did not find it
LookupNotFound ==
    /\ dbCall.op = "_perform_challenges"
    /\ ~dbCall.raised
    /\ \E k \in DOMAIN dbCall.log : IsLookup(dbCall.log[k]) /\ ~dbCall.log[k].found

\* is_blacklisted of a record of miner_discoveries
IsBlacklisted(record) ==
    "is_blacklisted" \in DOMAIN record /\ record.is_blacklisted = TRUE

ScoringWrites ==
    { k \in DOMAIN regLog : regLog[k][1] \in {"metadata", "challenges"} }

\* C22: the tasks of an iteration are launched together, one per miner of the
\* worklist, and joined before anything else happens: while a task has not
\* completed no miner is scored, no metadata or counter is written to the registry
\* and set_weights is not entered.
C22_ScatterGatherBarrier ==
    /\ pc = "challenging" => Len(task) = Len(worklist)
    /\ (\E i \in DOMAIN task : task[i].at # "done") =>
          /\ pc = "challenging"
          /\ score_dict = <<>>
          /\ ScoringWrites = {}
          /\ maxAllowed = 0 /\ swLog = <<>>
    /\ (score_dict # <<>> \/ ScoringWrites # {}) =>
          /\ Len(task) = Len(worklist)
          /\ \A i \in DOMAIN task : task[i].at = "done"

\* both tasks have completed, the second after the first, and the first miner has
\* been scored and written while the second has not
C22_Witness ==
    /\ pc = "scoring"
    /\ Len(worklist) = 2 /\ idx = 2
    /\ \A i \in DOMAIN task : task[i].at = "done" /\ response[i].ok
    /\ Keys(score_dict) = {worklist[1]}
    /\ ScoringWrites = {3, 4}

\* ------------------------------------------------- claims on the score map

\* C23: every value placed in the score map lies in [0,1], for every failed-challenge
\* count, follower count, receipt multiplier and token weighting, and the assertion
\* weighted_score <= 1 never fails.
C23_ScoresInUnitInterval ==
    /\ error # "AssertionError"
    /\ \A i \in DOMAIN score_dict :
          /\ FLeq(FloatZero, score_dict[i][2])
          /\ FLeq(score_dict[i][2], ScoreOne)

\* ------------------------------------ claims on the registry over iterations

\* the last step was an iteration of validate_step
AfterStep == dbCall.op = "validate_step"

\* the miners of the last iteration whose challenge task returned a response
Answered == { k \in DOMAIN dbCall.miners : dbCall.miners[k].ok }

\* C24: at the end of an iteration in which a miner is in the worklist and answers
\* its challenge, the registry record of that miner holds as rank the emission
\* the chain client reported in that iteration, also when the record was created
\* in that iteration.
C24_RankIsEmissionOfIteration ==
    AfterStep =>
        \A k \in Answered :
            \E i \in RowsOf(miner_discovery.rows, dbCall.miners[k].miner_key,
                            dbCall.miners[k].token) :
                miner_discovery.rows[i].rank = dbCall.miners[k].emission

\* the record of (miner_key, token) among rows, or a record with counters 0
CountersOf(rows, miner_key, token) ==
    IF RowsOf(rows, miner_key, token) = {}
    THEN [failed_challenges |-> 0, total_challenges |-> 0]
    ELSE LET i == CHOOSE i \in RowsOf(rows, miner_key, token) : TRUE
         IN  [failed_challenges |-> rows[i].failed_challenges,
              total_challenges |-> rows[i].total_challenges]

\* C25: an iteration adds, for every miner that answered, exactly 2 to the
\* total_challenges of the miner's record and the failed_challenges of the answer
\* to its failed_challenges; for a miner of the worklist that did not answer no
\* record of that miner has a counter changed.
C25_CountersPerRound ==
    AfterStep =>
        \A k \in DOMAIN dbCall.miners :
            LET m == dbCall.miners[k]
            IN  IF m.ok
                THEN /\ RowsOf(miner_discovery.rows, m.miner_key, m.token) # {}
                     /\ CountersOf(miner_discovery.rows, m.miner_key, m.token) =
                            [failed_challenges |->
                                 CountersOf(dbCall.before, m.miner_key,
                                            m.token).failed_challenges
                                 + m.failed_challenges,
                             total_challenges |->
                                 CountersOf(dbCall.before, m.miner_key,
                                            m.token).total_challenges
                                 + ChallengesPerRound]
                ELSE \A token \in Tokens :
                         CountersOf(miner_discovery.rows, m.miner_key, token) =
                             CountersOf(dbCall.before, m.miner_key, token)

\* C26: every record of the registry has 0 <= failed_challenges <=
\* total_challenges, and a challenge round reports at most ChallengesPerRound
\* failures: tweet-not-found and date-mismatch are never both counted.
C26_FailedWithinTotal ==
    /\ \A failed \in RoundFailures : failed <= ChallengesPerRound
    /\ \A i \in DOMAIN miner_discovery.rows :
          /\ 0 <= miner_discovery.rows[i].failed_challenges
          /\ miner_discovery.rows[i].failed_challenges
                 <= miner_discovery.rows[i].total_challenges

\* a record all of whose challenges failed, after two rounds
C26_Witness ==
    /\ AfterStep
    /\ \E i \in DOMAIN miner_discovery.rows :
          /\ miner_discovery.rows[i].total_challenges = 2 * ChallengesPerRound
          /\ miner_discovery.rows[i].failed_challenges = 2 * ChallengesPerRound

\* the record of (miner_key, token) in the table before the last call, if any
Existing(miner_key, token) == RowsOf(dbCall.before, miner_key, token)

\* the columns store_miner_metadata does not set
KeptColumns(record) ==
    [rank |-> record.rank, failed_challenges |-> record.failed_challenges,
     total_challenges |-> record.total_challenges, is_trusted |-> record.is_trusted]

\* C30: store_miner_metadata on an existing (miner_key, token) record leaves the
\* record's rank, failed_challenges, total_challenges and trust flag as they
\* were, and writes the uid and the timestamp of the call.
C30_UpsertKeepsCounters ==
    (IsRegistryCall({"store_miner_metadata"}) /\ ~dbCall.raised) =>
        \A j \in Existing(dbCall.miner_key, dbCall.token) :
            \E i \in DOMAIN miner_discovery.rows :
                /\ RowsOf(miner_discovery.rows, dbCall.miner_key, dbCall.token) = {i}
                /\ KeptColumns(miner_discovery.rows[i]) = KeptColumns(dbCall.before[j])
                /\ miner_discovery.rows[i].timestamp = dbCall.now

\* a record with a rank and failures is stored again under another uid
C30_Witness ==
    /\ IsRegistryCall({"store_miner_metadata"}) /\ ~dbCall.raised
    /\ \E j \in Existing(dbCall.miner_key, dbCall.token),
          i \in RowsOf(miner_discovery.rows, dbCall.miner_key, dbCall.token) :
          /\ dbCall.before[j].rank = 9
          /\ dbCall.before[j].failed_challenges = 2
          /\ dbCall.before[j].total_challenges = 2
          /\ dbCall.before[j].uid # miner_discovery.rows[i].uid
          /\ miner_discovery.rows[i].rank = 9

\* ------------------------------------------ claims on the order of responses

\* the value validate_step puts in the score map for a response of the loop
ScoreOfResponse(resp) ==
    IF ~resp.ok THEN {FloatZero}
    ELSE { weighted_score(_score_miner(resp, m2),
               adjust_token_weights_with_min_threshold(LoopBaseWeights,
                                                       LoopOrganicUsage),
               "PEPE") : m2 \in LoopMultipliers2 }

\* the registry writes of the scoring loop, in order, for the first n miners
RECURSIVE WritesOfScoring(_)
WritesOfScoring(n) ==
    IF n = 0 THEN <<>>
    ELSE WritesOfScoring(n - 1) \o
         (IF response[n].ok
          THEN <<MetadataWrite(worklist[n]), ChallengesWrite(worklist[n])>>
          ELSE <<>>)

\* C27: whatever order the tasks of an iteration complete in, the response at
\* each position is the one of the miner at that position of the worklist, it is
\* scored under that miner's UID and written to the registry for that miner, and
\* when the scoring loop has ended the score map has exactly one entry for every
\* miner of the worklist.
C27_ResponsesMatchMiners ==
    pc \in {"challenging", "scoring"} =>
        /\ Len(response) = Len(worklist)
        /\ \A i \in DOMAIN response : response[i].ok => response[i].by = worklist[i]
        /\ pc = "scoring" =>
              /\ KeyList(score_dict) = SubSeq(worklist, 1, idx - 1)
              /\ \A k \in 1..(idx - 1) :
                    Get(score_dict, worklist[k]) \in ScoreOfResponse(response[k])
              /\ SubSeq(regLog, Len(worklist) + 1, Len(regLog))
                     = WritesOfScoring(idx - 1)

\* both miners answered, the first with two failed challenges and the second with
\* none, and both are scored
C27_Witness ==
    /\ pc = "scoring" /\ worklist = <<1, 2>> /\ idx = 3
    /\ response[1].ok /\ response[1].failed_challenges = 2
    /\ response[2].ok /\ response[2].failed_challenges = 0
    /\ Get(score_dict, 1) # Get(score_dict, 2)

\* ------------------------------------------------- claims on query_miner

\* the last call was query_miner without a miner_key, and it returned
QueriedTopMiners ==
    dbCall.op = "query_miner" /\ dbCall.miner_key = NoKey /\ dbCall.raised = "none"

\* C29: in query_miner called without a miner_key, the miner accept_miner_receipt
\* is called for is one for which store_miner_receipt was called under the same
\* request_id, that is a miner that returned a non-empty response.
C29_AcceptedReceiptWasStored ==
    QueriedTopMiners => dbCall.accepted \in dbCall.stored

\* ------------------------------------------- claims on concurrent tasks

\* the tasks that fetched the tweet, or the user, from Twitter after a cache miss
FetchedTweet(tweet_id) ==
    { i \in DOMAIN task :
          task[i].output.tweet_id = tweet_id /\ task[i].tweet_from = "twitter" }

FetchedUser(user_id) ==
    { i \in DOMAIN task :
          task[i].output.user_id = user_id /\ task[i].user_from = "twitter" }

TweetRows(tweet_id) ==
    { k \in DOMAIN tweet_cache : tweet_cache[k].tweet_id = tweet_id }

UserRows(user_id) ==
    { k \in DOMAIN user_cache : user_cache[k].user_id = user_id }

\* C28: when tasks of one iteration verify the same tweet id, or the same user
\* id, against a cold cache, in whatever order their cache reads and write-backs
\* interleave, the cache holds exactly one entry for the id once a task has
\* fetched it, with the value Twitter returned, and no task counts a not-found
\* failure for an id Twitter holds.
C28_ColdCacheRace ==
    pc = "race" =>
        /\ \A tweet_id \in TweetIds :
              /\ Cardinality(TweetRows(tweet_id))
                     = IF FetchedTweet(tweet_id) = {} THEN 0 ELSE 1
              /\ \A k \in TweetRows(tweet_id) :
                    tweet_cache[k].tweet_date = TweetCreatedAt(tweet_id)
        /\ \A user_id \in UserIds :
              /\ Cardinality(UserRows(user_id))
                     = IF FetchedUser(user_id) = {} THEN 0 ELSE 1
              /\ \A k \in UserRows(user_id) :
                    /\ user_cache[k].follower_count
                           = TwitterUserDetails(user_id).followers_count
                    /\ user_cache[k].verified = TwitterUserDetails(user_id).verified
        /\ \A i \in DOMAIN task :
              /\ task[i].output.tweet_id \in dbCall.tweets
                     => task[i].tweet_from # "nowhere"
              /\ task[i].output.user_id \in dbCall.users
                     => task[i].user_from # "nowhere"

\* two tasks missed the cache for the same tweet and for the same user, each
\* fetched and wrote both, and both are done without a failure
C28_Witness ==
    /\ pc = "race"
    /\ \E tweet_id \in TweetIds, user_id \in UserIds :
          /\ FetchedTweet(tweet_id) = {1, 2} /\ FetchedUser(user_id) = {1, 2}
          /\ Cardinality(TweetRows(tweet_id)) = 1
          /\ Cardinality(UserRows(user_id)) = 1
    /\ \A i \in {1, 2} : task[i].at = "done" /\ task[i].failed_challenges = 0

====
